---- MODULE Spec2Model ----
(***************************************************************************)
(* A model of sik-sort's sort/move engine: scan -> classify -> destination *)
(* path -> conflict-safe move -> statistics, in its five modes (sorter.py),*)
(* over a small file tree.                                                 *)
(*                                                                         *)
(* A file path is a record [dir, name]: dir is the sequence of directory   *)
(* names from the filesystem root, name is [stem, ext] as pathlib splits   *)
(* it (Path.stem, Path.suffix).  File names and directory names are kept   *)
(* in separate namespaces: no directory of the modelled trees carries the  *)
(* name of a file.  A file's data is its inode number, its bytes and its   *)
(* two timestamps.                                                         *)
(***************************************************************************)
EXTENDS Integers, Sequences, FiniteSets, TLC

VARIABLES
    root,       \* source_path, the directory being sorted
    fs,         \* the regular files on disk: path -> data
    dirs,       \* the directories on disk
    call,       \* the function running (or last run) and its arguments
    dry_run,    \* the dry_run argument of that call
    pc,         \* "idle" | "loop" | "done" | "aborted" | "raised"
    files,      \* the list scan_directory returned to the call
    i,          \* the loop index (enumerate(files, 1))
    stats,      \* the statistics object of the call
    duplicate_files, \* sort_files_with_duplicates' set of flagged files
    last,       \* the last iteration's call of the mover, for the properties
    before,     \* fs and dirs when the call started, for the properties
    prev,       \* the previous call's outcome, for the properties
    runs,       \* calls started so far
    faults,     \* failures the environment injected into this call
    ret,        \* what a function called on its own returned
    movers      \* the mover calls in progress side by side: where each one stands

vars == <<root, fs, dirs, call, dry_run, pc, files, i, stats, duplicate_files,
          last, before, prev, runs, faults, ret, movers>>

----------------------------------------------------------------------------
(* Bounds *)

MaxFiles == 3
MaxRuns == 2
MaxFaults == 1

----------------------------------------------------------------------------
(* Paths and names *)

Name(stem, ext) == [stem |-> stem, ext |-> ext]

FilePath(dir, name) == [dir |-> dir, name |-> name]

IsPrefix(p, q) == Len(p) <= Len(q) /\ SubSeq(q, 1, Len(p)) = p

\* Path.parents of a directory path together with the path itself
Prefixes(dir) == {SubSeq(dir, 1, n) : n \in 1..Len(dir)}

Perms(S) == {f \in [1..Cardinality(S) -> S] : \A a, b \in 1..Cardinality(S) : f[a] = f[b] => a = b}

Range(s) == {s[k] : k \in 1..Len(s)}

----------------------------------------------------------------------------
(* classifier.py *)

IMAGE_EXT == {".jpg", ".jpeg", ".png", ".gif", ".bmp", ".tiff", ".webp", ".svg"}
VIDEO_EXT == {".mp4", ".avi", ".mov", ".mkv", ".wmv", ".flv", ".webm", ".m4v", ".mpg", ".mpeg"}
ARCHIVE_EXT == {".zip", ".rar", ".7z", ".tar", ".gz", ".bz2", ".xz", ".iso"}

\* str.lower() on the spellings the modelled names and arguments come in: the
\* extensions of the three tables, ".txt" and ".md" in upper, title and mixed
\* case, and the algorithm name "MD5"
LowerOf ==
       (".JPG" :> ".jpg") @@ (".Jpg" :> ".jpg") @@ (".JpG" :> ".jpg")
    @@ (".JPEG" :> ".jpeg") @@ (".Jpeg" :> ".jpeg") @@ (".JpEg" :> ".jpeg")
    @@ (".PNG" :> ".png") @@ (".Png" :> ".png") @@ (".PnG" :> ".png")
    @@ (".GIF" :> ".gif") @@ (".Gif" :> ".gif") @@ (".GiF" :> ".gif")
    @@ (".BMP" :> ".bmp") @@ (".Bmp" :> ".bmp") @@ (".BmP" :> ".bmp")
    @@ (".TIFF" :> ".tiff") @@ (".Tiff" :> ".tiff") @@ (".TiFf" :> ".tiff")
    @@ (".WEBP" :> ".webp") @@ (".Webp" :> ".webp") @@ (".WeBp" :> ".webp")
    @@ (".SVG" :> ".svg") @@ (".Svg" :> ".svg") @@ (".SvG" :> ".svg")
    @@ (".MP4" :> ".mp4") @@ (".Mp4" :> ".mp4") @@ (".AVI" :> ".avi")
    @@ (".Avi" :> ".avi") @@ (".AvI" :> ".avi") @@ (".MOV" :> ".mov")
    @@ (".Mov" :> ".mov") @@ (".MoV" :> ".mov") @@ (".MKV" :> ".mkv")
    @@ (".Mkv" :> ".mkv") @@ (".MkV" :> ".mkv") @@ (".WMV" :> ".wmv")
    @@ (".Wmv" :> ".wmv") @@ (".WmV" :> ".wmv") @@ (".FLV" :> ".flv")
    @@ (".Flv" :> ".flv") @@ (".FlV" :> ".flv") @@ (".WEBM" :> ".webm")
    @@ (".Webm" :> ".webm") @@ (".WeBm" :> ".webm") @@ (".M4V" :> ".m4v")
    @@ (".MPG" :> ".mpg") @@ (".Mpg" :> ".mpg") @@ (".MpG" :> ".mpg")
    @@ (".MPEG" :> ".mpeg") @@ (".Mpeg" :> ".mpeg") @@ (".MpEg" :> ".mpeg")
    @@ (".ZIP" :> ".zip") @@ (".Zip" :> ".zip") @@ (".ZiP" :> ".zip")
    @@ (".RAR" :> ".rar") @@ (".Rar" :> ".rar") @@ (".RaR" :> ".rar")
    @@ (".7Z" :> ".7z") @@ (".TAR" :> ".tar") @@ (".Tar" :> ".tar")
    @@ (".TaR" :> ".tar") @@ (".GZ" :> ".gz") @@ (".Gz" :> ".gz")
    @@ (".BZ2" :> ".bz2") @@ (".Bz2" :> ".bz2") @@ (".XZ" :> ".xz")
    @@ (".Xz" :> ".xz") @@ (".ISO" :> ".iso") @@ (".Iso" :> ".iso")
    @@ (".IsO" :> ".iso") @@ (".TXT" :> ".txt") @@ (".Txt" :> ".txt")
    @@ (".TxT" :> ".txt") @@ (".MD" :> ".md") @@ (".Md" :> ".md")
    @@ ("MD5" :> "md5")

Lower(s) == IF s \in DOMAIN LowerOf THEN LowerOf[s] ELSE s

\* the lookup without the lowercasing
classify_file_case_sensitive(file_path) ==
    LET extension == file_path.name.ext
    IN  IF extension \in IMAGE_EXT THEN "img"
        ELSE IF extension \in VIDEO_EXT THEN "vid"
        ELSE IF extension \in ARCHIVE_EXT THEN "arc"
        ELSE "msk"

classify_file(file_path) ==
    LET extension == Lower(file_path.name.ext)
    IN  IF extension \in IMAGE_EXT THEN "img"
        ELSE IF extension \in VIDEO_EXT THEN "vid"
        ELSE IF extension \in ARCHIVE_EXT THEN "arc"
        ELSE "msk"

----------------------------------------------------------------------------
(* size_classifier.py *)

get_file_size(fsys, file_path) == Len(fsys[file_path].content)

\* the upper bounds taken as exclusive
classify_by_size_exclusive(fsys, file_path, thresholds) ==
    LET size == get_file_size(fsys, file_path)
    IN  IF size < thresholds.small_max THEN "small"
        ELSE IF size < thresholds.medium_max THEN "medium"
        ELSE "large"

classify_by_size(fsys, file_path, thresholds) ==
    LET size == get_file_size(fsys, file_path)
    IN  IF size <= thresholds.small_max THEN "small"
        ELSE IF size <= thresholds.medium_max THEN "medium"
        ELSE "large"

----------------------------------------------------------------------------
(* date_classifier.py *)

get_file_date(fsys, file_path, use_creation) ==
    IF use_creation THEN fsys[file_path].ctime ELSE fsys[file_path].mtime

\* date.strftime(format_string)
strftime(date, format_string) ==
    CASE format_string = "%Y-%m" -> date.y \o "-" \o date.m
      [] format_string = "%Y/%m" -> date.y \o "/" \o date.m
      [] format_string = "%Y" -> date.y

\* the path segments a formatted date joins to in source_path / date_folder:
\* a "/" in the string separates two segments
parts(date_folder) ==
    CASE date_folder = "2024/01" -> <<"2024", "01">>
      [] date_folder = "2024/02" -> <<"2024", "02">>
      [] OTHER -> <<date_folder>>

\* the formatted date, as the path segments it joins to
format_date(date, format_string) == parts(strftime(date, format_string))

classify_by_date(fsys, file_path, use_creation, date_format) ==
    format_date(get_file_date(fsys, file_path, use_creation), date_format)

----------------------------------------------------------------------------
(* scanner.py *)

is_excluded_directory(path, exclude_dirs) == path[Len(path)] \in exclude_dirs

\* only the directories directly under path are looked at
scan_directory_top_level(fsys, path, exclude_dirs) ==
    {item \in DOMAIN fsys :
        /\ IsPrefix(path, item.dir)
        /\ ~ (Len(item.dir) > Len(path) /\ item.dir[Len(path) + 1] \in exclude_dirs)}

\* rglob('*') under path, minus the items with an excluded directory among
\* item.parents (which run up to the filesystem root); directories are not
\* returned.  The order of the list is the filesystem's.
scan_directory(fsys, path, exclude_dirs) ==
    {item \in DOMAIN fsys :
        /\ IsPrefix(path, item.dir)
        /\ ~ \E parent \in Prefixes(item.dir) : is_excluded_directory(parent, exclude_dirs)}

----------------------------------------------------------------------------
(* filters.py *)

FilterConfig(ip, ep, ie, ee) ==
    [include_patterns |-> ip, exclude_patterns |-> ep,
     include_extensions |-> ie, exclude_extensions |-> ee]

\* fnmatch.fnmatch(name, pattern) on the patterns the modelled calls pass and
\* the names of the modelled trees; the match is on the whole name and, as
\* on POSIX, case-sensitive
fnmatch(name, pattern) ==
    CASE pattern = "*.txt" -> name.ext = ".txt"
      [] pattern = "*.jpg" -> name.ext = ".jpg"
      [] pattern = "*.mp4" -> name.ext = ".mp4"
      [] pattern = "dup*" -> name.stem \in {"dup", "dup_1", "dup_2", "dup_3"}
      [] pattern = "*_1*" -> name.stem = "dup_1"
      [] pattern = "photo.*" -> name.stem = "photo" /\ name.ext # ""
      [] OTHER -> FALSE

matches_pattern(file_path, pattern) == fnmatch(file_path.name, pattern)

matches_extensions(file_path, extensions) ==
    Lower(file_path.name.ext) \in {Lower(ext) : ext \in extensions}

\* the list reversed
apply_filters_reversed(file_list, config) ==
    LET any(f, patterns) == \E k \in DOMAIN patterns : matches_pattern(f, patterns[k])
        kept(f) ==
            /\ config.include_patterns # <<>> => any(f, config.include_patterns)
            /\ config.include_extensions # {} => matches_extensions(f, config.include_extensions)
            /\ ~ any(f, config.exclude_patterns)
            /\ ~ matches_extensions(f, config.exclude_extensions)
        filtered == SelectSeq(file_list, kept)
    IN  [filtered |-> [k \in 1..Len(filtered) |-> filtered[Len(filtered) + 1 - k]],
         excluded_count |-> Len(file_list) - Len(filtered)]

\* the include stages left out
apply_filters_exclude_only(file_list, config) ==
    LET any(f, patterns) == \E k \in DOMAIN patterns : matches_pattern(f, patterns[k])
        kept(f) ==
            /\ ~ any(f, config.exclude_patterns)
            /\ ~ matches_extensions(f, config.exclude_extensions)
        filtered == SelectSeq(file_list, kept)
    IN  [filtered |-> filtered, excluded_count |-> Len(file_list) - Len(filtered)]

apply_filters(file_list, config) ==
    LET total_files == Len(file_list)
        any(f, patterns) == \E k \in DOMAIN patterns : matches_pattern(f, patterns[k])
        in_patterns(f) == any(f, config.include_patterns)
        in_extensions(f) == matches_extensions(f, config.include_extensions)
        out_patterns(f) == ~ any(f, config.exclude_patterns)
        out_extensions(f) == ~ matches_extensions(f, config.exclude_extensions)
        filtered1 == IF config.include_patterns # <<>>
                     THEN SelectSeq(file_list, in_patterns) ELSE file_list
        filtered2 == IF config.include_extensions # {}
                     THEN SelectSeq(filtered1, in_extensions) ELSE filtered1
        filtered3 == IF config.exclude_patterns # <<>>
                     THEN SelectSeq(filtered2, out_patterns) ELSE filtered2
        filtered4 == IF config.exclude_extensions # {}
                     THEN SelectSeq(filtered3, out_extensions) ELSE filtered3
    IN  [filtered |-> filtered4, excluded_count |-> total_files - Len(filtered4)]

----------------------------------------------------------------------------
(* cleaner.py *)

\* Path.iterdir(): the files and the directories directly in directory d
entries(fsys, ds, d) ==
    {p \in DOMAIN fsys : p.dir = d} \cup {e \in ds : Len(e) = Len(d) + 1 /\ IsPrefix(d, e)}

\* the root returned too when it is empty
find_empty_directories_with_root(fsys, ds, root_path, preserve_dirs) ==
    {current_dir \in ds :
        /\ IsPrefix(root_path, current_dir)
        /\ current_dir[Len(current_dir)] \notin preserve_dirs
        /\ entries(fsys, ds, current_dir) = {}}

\* the preserved names not looked at
find_empty_directories_unpreserved(fsys, ds, root_path, preserve_dirs) ==
    {current_dir \in ds :
        /\ IsPrefix(root_path, current_dir)
        /\ current_dir # root_path
        /\ entries(fsys, ds, current_dir) = {}}

\* the walk below root_path: a directory is listed when its own name is not
\* preserved, it is not root_path and it has no entry.  The list comes in the
\* walk's bottom-up order; no listed directory is above another one.
find_empty_directories(fsys, ds, root_path, preserve_dirs) ==
    {current_dir \in ds :
        /\ IsPrefix(root_path, current_dir)
        /\ current_dir[Len(current_dir)] \notin preserve_dirs
        /\ current_dir # root_path
        /\ entries(fsys, ds, current_dir) = {}}

\* Path.rmdir(): raises when the directory is gone, holds an entry, or the
\* environment refuses the removal
rmdir_raises(fsys, ds, directory, unremovable) ==
    \/ directory \notin ds
    \/ entries(fsys, ds, directory) # {}
    \/ directory \in unremovable

RECURSIVE rmdir_each(_, _, _, _, _)
\* the loop of remove_empty_directories from directories[k] on
rmdir_each(fsys, st, directories, unremovable, k) ==
    IF k > Len(directories) THEN st
    ELSE IF rmdir_raises(fsys, st.dirs, directories[k], unremovable)
         THEN rmdir_each(fsys, st, directories, unremovable, k + 1)
         ELSE rmdir_each(fsys, [dirs |-> st.dirs \ {directories[k]}, removed_count |-> st.removed_count + 1],
                         directories, unremovable, k + 1)

\* every directory of the list counted
remove_empty_directories_counting_all(fsys, ds, directories, unremovable) ==
    [dirs |-> rmdir_each(fsys, [dirs |-> ds, removed_count |-> 0], directories, unremovable, 1).dirs,
     removed_count |-> Len(directories)]

\* one pass over the list
remove_empty_directories(fsys, ds, directories, unremovable) ==
    rmdir_each(fsys, [dirs |-> ds, removed_count |-> 0], directories, unremovable, 1)

----------------------------------------------------------------------------
(* duplicates.py *)

\* What a call gives back: a value returned, or an exception raised
Returned(value) == [raised |-> "none", value |-> value]

Raised(exception) == [raised |-> exception]

\* hashlib's digest of the file's bytes: one value per algorithm and content.
\* The algorithm is looked at before the file is opened.
compute_hash(fsys, file_path, algorithm) ==
    IF Lower(algorithm) \notin {"md5", "sha256"} THEN Raised("ValueError")
    ELSE IF file_path \notin DOMAIN fsys THEN Raised("OSError")
    ELSE Returned([alg |-> Lower(algorithm), of |-> fsys[file_path].content])

\* the groups with their members in the reverse of the input's order
find_duplicates_reversed(fsys, file_list, algorithm) ==
    LET hashed == SelectSeq(file_list, LAMBDA f : f \in DOMAIN fsys)
        hashes == {fsys[hashed[k]].content : k \in 1..Len(hashed)}
        group(h) == SelectSeq(hashed, LAMBDA f : fsys[f].content = h)
        reversed(g) == [k \in 1..Len(g) |-> g[Len(g) + 1 - k]]
    IN  Returned([h \in {x \in hashes : Len(group(x)) > 1} |-> reversed(group(h))])

\* hash -> the files with that hash, in input order; groups of two or more only.
\* A file that cannot be read is skipped; a ValueError leaves the function.
find_duplicates(fsys, file_list, algorithm) ==
    LET file_hash(f) == compute_hash(fsys, f, algorithm)
        hashed == SelectSeq(file_list, LAMBDA f : file_hash(f).raised = "none")
        hashes == {file_hash(hashed[k]).value : k \in 1..Len(hashed)}
        group(h) == SelectSeq(hashed, LAMBDA f : file_hash(f).value = h)
    IN  IF \E k \in 1..Len(file_list) : file_hash(file_list[k]).raised = "ValueError"
        THEN Raised("ValueError")
        ELSE Returned([h \in {x \in hashes : Len(group(x)) > 1} |-> group(h)])

RECURSIVE SumOver(_, _)
SumOver(f, S) ==
    IF S = {} THEN 0
    ELSE LET x == CHOOSE y \in S : TRUE IN f[x] + SumOver(f, S \ {x})

\* every member counted, the kept one too
calculate_space_saved_all_members(fsys, duplicates) ==
    SumOver([h \in DOMAIN duplicates |->
                IF duplicates[h][1] \in DOMAIN fsys
                THEN Len(fsys[duplicates[h][1]].content) * Len(duplicates[h])
                ELSE 0],
            DOMAIN duplicates)

\* a group whose first file cannot be stat'ed (OSError) adds nothing
calculate_space_saved(fsys, duplicates) ==
    SumOver([h \in DOMAIN duplicates |->
                IF duplicates[h][1] \in DOMAIN fsys
                THEN get_file_size(fsys, duplicates[h][1]) * (Len(duplicates[h]) - 1)
                ELSE 0],
            DOMAIN duplicates)

----------------------------------------------------------------------------
(* sorter.py: the conflict-safe mover *)

\* the time of a rename, which POSIX records as the file's st_ctime
Now == [y |-> "2024", m |-> "03"]

exists(fsys, path) == path \in DOMAIN fsys

\* shutil.move (os.rename): the entry at src goes to dest, replacing what is there
shutil_move(fsys, src, dest) ==
    [p \in (DOMAIN fsys \ {src}) \cup {dest} |->
        IF p = dest THEN [fsys[src] EXCEPT !.ctime = Now] ELSE fsys[p]]

RECURSIVE probe_unique(_, _, _, _)
probe_unique(fsys, dest_path, filename, counter) ==
    LET new_filename == Name(filename.stem \o "_" \o ToString(counter), filename.ext)
    IN  IF ~ exists(fsys, FilePath(dest_path, new_filename))
        THEN new_filename
        ELSE probe_unique(fsys, dest_path, filename, counter + 1)

\* the first candidate name, taken without the probe
generate_unique_filename_unprobed(fsys, dest_path, filename) ==
    Name(filename.stem \o "_" \o ToString(1), filename.ext)

\* the search started at _2
generate_unique_filename_from_two(fsys, dest_path, filename) ==
    probe_unique(fsys, dest_path, filename, 2)

generate_unique_filename(fsys, dest_path, filename) ==
    probe_unique(fsys, dest_path, filename, 1)

\* the mover without its dry-run branch
move_file_ignoring_dry_run(fsys, src, dest, dry) ==
    IF ~ exists(fsys, dest)
    THEN [fs |-> shutil_move(fsys, src, dest), ret |-> dest]
    ELSE LET unique_filename == generate_unique_filename(fsys, dest.dir, dest.name)
             unique_dest == FilePath(dest.dir, unique_filename)
         IN  [fs |-> shutil_move(fsys, src, unique_dest), ret |-> unique_dest]

\* the mover without its existence check
move_file_without_check(fsys, src, dest, dry) ==
    IF dry THEN [fs |-> fsys, ret |-> dest]
    ELSE [fs |-> shutil_move(fsys, src, dest), ret |-> dest]

\* the mover taking a fresh name whether dest exists or not
move_file_always_renaming(fsys, src, dest, dry) ==
    IF dry THEN [fs |-> fsys, ret |-> dest]
    ELSE LET unique_filename == generate_unique_filename(fsys, dest.dir, dest.name)
             unique_dest == FilePath(dest.dir, unique_filename)
         IN  [fs |-> shutil_move(fsys, src, unique_dest), ret |-> unique_dest]

\* the filesystem after the call, and the path returned
move_file_with_conflict_resolution(fsys, src, dest, dry) ==
    IF dry THEN [fs |-> fsys, ret |-> dest]
    ELSE IF ~ exists(fsys, dest)
    THEN [fs |-> shutil_move(fsys, src, dest), ret |-> dest]
    ELSE LET unique_filename == generate_unique_filename(fsys, dest.dir, dest.name)
             unique_dest == FilePath(dest.dir, unique_filename)
         IN  [fs |-> shutil_move(fsys, src, unique_dest), ret |-> unique_dest]

\* dest_folder.mkdir(parents=True, exist_ok=True); without parents=True the
\* parent is source_path, which exists
mkdir(ds, dest_folder) == ds \cup Prefixes(dest_folder)

\* the folder made in a dry run too
ensure_dest_folder_always(ds, dest_folder, dry) == mkdir(ds, dest_folder)

\* no folder made at all
ensure_dest_folder_never(ds, dest_folder, dry) == ds

ensure_dest_folder(ds, dest_folder, dry) ==
    IF ~ dry THEN mkdir(ds, dest_folder) ELSE ds

----------------------------------------------------------------------------
(* sorter.py: the statistics *)

EmptyStats ==
    [total_files |-> 0, img_count |-> 0, vid_count |-> 0, arc_count |-> 0,
     msk_count |-> 0, duplicates_found |-> 0, space_saved |-> 0,
     size_categories |-> <<>>, date_categories |-> <<>>,
     operations |-> <<>>, errors |-> <<>>]

increment(st, category) ==
    LET t == [st EXCEPT !.total_files = @ + 1]
    IN  IF category = "img" THEN [t EXCEPT !.img_count = @ + 1]
        ELSE IF category = "vid" THEN [t EXCEPT !.vid_count = @ + 1]
        ELSE IF category = "arc" THEN [t EXCEPT !.arc_count = @ + 1]
        ELSE IF category = "msk" THEN [t EXCEPT !.msk_count = @ + 1]
        ELSE t

\* stats.increment(*arguments): the method takes the category alone, and a
\* call with other arguments does not bind
call_increment(st, arguments) ==
    IF Len(arguments) = 1 THEN Returned(increment(st, arguments[1])) ELSE Raised("TypeError")

\* the bucket reset on every file
count_bucket_reset(d, key) ==
    [k \in DOMAIN d \cup {key} |-> IF k = key THEN 1 ELSE d[k]]

\* if key not in d: d[key] = 0; d[key] += 1
count_bucket(d, key) ==
    IF key \in DOMAIN d THEN [d EXCEPT ![key] = @ + 1] ELSE d @@ (key :> 1)

FileOperation(source, destination, category, size) ==
    [source |-> source, destination |-> destination, category |-> category, size |-> size]

----------------------------------------------------------------------------
(* The trees the runs start from *)

Jan == [y |-> "2024", m |-> "01"]
Feb == [y |-> "2024", m |-> "02"]

Candidate(rel, stem, ext, content, mtime, ctime) ==
    [rel |-> rel, name |-> Name(stem, ext), content |-> content,
     mtime |-> mtime, ctime |-> ctime]

\* directories relative to source_path; the index of a candidate is its inode
Candidates ==
    << Candidate(<<"a">>, "dup", ".txt", <<7>>, Jan, Feb),
       Candidate(<<"b">>, "dup", ".txt", <<7>>, Jan, Jan),
       Candidate(<<"c">>, "dup", ".txt", <<7>>, Feb, Feb),
       Candidate(<<"msk">>, "dup", ".txt", <<9, 9, 9>>, Feb, Feb),
       Candidate(<<"msk">>, "dup_1", ".txt", <<7>>, Jan, Jan),
       Candidate(<<>>, "photo", ".JPG", <<8, 8>>, Feb, Feb),
       Candidate(<<"a", "img">>, "x", ".txt", <<8, 8>>, Jan, Jan),
       Candidate(<<>>, "movie", ".mp4", <<9, 9, 9>>, Jan, Feb),
       Candidate(<<"b">>, "archive", ".Zip", <<8, 8>>, Feb, Feb) >>

\* source_path: a plain directory, or one that itself carries a category name
Roots == {<<"w">>, <<"img">>}

TreeOf(r, S) ==
    [p \in {FilePath(r \o Candidates[k].rel, Candidates[k].name) : k \in S} |->
        LET k == CHOOSE n \in S : FilePath(r \o Candidates[n].rel, Candidates[n].name) = p
        IN  [ino |-> k, content |-> Candidates[k].content,
             mtime |-> Candidates[k].mtime, ctime |-> Candidates[k].ctime]]

DirsOf(r, S) == Prefixes(r) \cup UNION {Prefixes(r \o Candidates[k].rel) : k \in S}

----------------------------------------------------------------------------
(* The calls and their arguments *)

Config(fn, rec, thr, uc, fmt, wth, alg) ==
    [fn |-> fn, record_operations |-> rec, thresholds |-> thr, use_creation |-> uc,
     date_format |-> fmt, with_type_hierarchy |-> wth, hash_algorithm |-> alg]

Thresholds(s, m) == [small_max |-> s, medium_max |-> m]

NoCall == Config("none", FALSE, Thresholds(1, 2), FALSE, "%Y-%m", FALSE, "md5")

NoPath == FilePath(<<>>, Name("", ""))

NoMove == [called |-> FALSE, src |-> NoPath, dest |-> NoPath, ret |-> NoPath, existed |-> FALSE]

NoRet == Raised("none")

NoPrev == [ran |-> FALSE, dry |-> FALSE, pc |-> "idle", stats |-> EmptyStats, faults |-> 0]

\* nothing has been called yet on the files fsys and directories ds under r
StartOn(r, fsys, ds) ==
    /\ root = r
    /\ fs = fsys
    /\ dirs = ds
    /\ call = NoCall
    /\ dry_run = FALSE
    /\ pc = "idle"
    /\ files = <<>>
    /\ i = 1
    /\ stats = EmptyStats
    /\ duplicate_files = {}
    /\ last = NoMove
    /\ before = [fs |-> fs, dirs |-> dirs]
    /\ prev = NoPrev
    /\ runs = 0
    /\ faults = 0
    /\ ret = NoRet
    /\ movers = <<>>

\* nothing has been called yet on the tree of candidates S under r
Start(r, S) == StartOn(r, TreeOf(r, S), DirsOf(r, S))

Init ==
    \E r \in Roots, S \in SUBSET (1..Len(Candidates)) :
        /\ Cardinality(S) <= MaxFiles
        /\ Start(r, S)

\* The entry of a sort function: the statistics object is made and the tree is
\* scanned.  A further call follows a call that returned with no failure, and
\* repeats its arguments but for dry_run.  The list comes in the filesystem's
\* order: any order, but the same order as the previous scan when nothing on
\* disk has changed since.  The call goes on to `to`: into its loop, or out of
\* the function with an exception.
Enter(c, dry, exclude_dirs, to) ==
    /\ pc \in {"idle", "done"}
    /\ runs < MaxRuns
    /\ runs > 0 => (c = call /\ faults = 0)
    /\ call' = c
    /\ dry_run' = dry
    /\ files' \in IF runs > 0 /\ fs = before.fs /\ dirs = before.dirs
                  THEN {files}
                  ELSE Perms(scan_directory(fs, root, exclude_dirs))
    /\ i' = 1
    /\ pc' = to
    /\ last' = NoMove
    /\ before' = [fs |-> fs, dirs |-> dirs]
    /\ prev' = IF runs = 0 THEN NoPrev
               ELSE [ran |-> TRUE, dry |-> dry_run, pc |-> pc, stats |-> stats, faults |-> faults]
    /\ runs' = runs + 1
    /\ faults' = 0
    /\ UNCHANGED <<root, movers, fs, dirs, ret>>

\* the entry of a function with nothing between the scan and the loop
Begin(c, dry, exclude_dirs) == Enter(c, dry, exclude_dirs, "loop")

\* One pass of a loop body over file_path, the environment failing it at
\* `fault` ("none": at no step; failures are injected into a first call only).  guarded: the body sits in try/except.
\* recording: a FileOperation is appended.  counted: stats.increment runs.
\* bucket: the dictionary counted into ("size", "date" or "none").
Iterate(file_path, dest_folder, dest_path, category_str, type_category, guarded, recording, counted, bucket, key, fault) ==
    LET reached_move == fault \notin {"classify", "mkdir"}
        completed == fault \in {"none", "callback"}
        mv == move_file_with_conflict_resolution(fs, file_path, dest_path, dry_run)
        fs1 == IF completed THEN mv.fs ELSE fs
        file_size == IF exists(fs1, file_path) THEN get_file_size(fs1, file_path) ELSE 0
        operation == FileOperation(file_path, mv.ret, category_str, file_size)
        st1 == IF recording THEN [stats EXCEPT !.operations = Append(@, operation)] ELSE stats
        st2 == IF counted THEN increment(st1, type_category) ELSE st1
        st3 == IF bucket = "size" THEN [st2 EXCEPT !.size_categories = count_bucket(@, key)]
               ELSE IF bucket = "date" THEN [st2 EXCEPT !.date_categories = count_bucket(@, key)]
               ELSE st2
        st4 == IF completed THEN st3 ELSE stats
        raised == fault # "none"
    IN  /\ fault # "none" => (faults < MaxFaults /\ ~ prev.ran)
        /\ fault \in {"mkdir", "move"} => ~ dry_run
        /\ dirs' = IF reached_move THEN ensure_dest_folder(dirs, dest_folder, dry_run) ELSE dirs
        /\ fs' = fs1
        /\ stats' = IF raised /\ guarded
                    THEN [st4 EXCEPT !.errors = Append(@, [file |-> file_path, at |-> fault])]
                    ELSE st4
        /\ last' = IF completed
                   THEN [called |-> TRUE, src |-> file_path, dest |-> dest_path,
                         ret |-> mv.ret, existed |-> exists(fs, dest_path)]
                   ELSE NoMove
        /\ faults' = IF raised THEN faults + 1 ELSE faults
        /\ pc' = IF raised /\ ~ guarded THEN "aborted" ELSE pc
        /\ i' = IF raised /\ ~ guarded THEN i ELSE i + 1
        /\ UNCHANGED <<root, movers, call, dry_run, files, duplicate_files, before, prev, runs, ret>>

InLoop(fn) == pc = "loop" /\ call.fn = fn /\ i <= Len(files)

----------------------------------------------------------------------------
(* sorter.py: sort_files (plain mode) *)

\* the exclusion set without the misc folder
sort_files_exclude_dirs_short == {"img", "vid", "arc"}

sort_files_exclude_dirs == {"img", "vid", "arc", "msk"}

sort_files_begin ==
    \E dry \in BOOLEAN, rec \in BOOLEAN :
        /\ Begin(Config("sort_files", rec, Thresholds(1, 2), FALSE, "%Y-%m", FALSE, "md5"),
                 dry, sort_files_exclude_dirs)
        /\ stats' = EmptyStats
        /\ duplicate_files' = {}

\* the body has no try/except: what it raises leaves sort_files
sort_files_body ==
    /\ InLoop("sort_files")
    /\ \E fault \in {"none", "mkdir", "move", "callback"} :
        LET file_path == files[i]
            category == classify_file(file_path)
            dest_folder == root \o <<category>>
            dest_path == FilePath(dest_folder, file_path.name)
        IN  Iterate(file_path, dest_folder, dest_path, <<category>>, category,
                    FALSE, call.record_operations, TRUE, "none", <<>>, fault)

----------------------------------------------------------------------------
(* sorter.py: sort_files_with_size *)

sort_files_with_size_exclude_dirs == {"img", "vid", "arc", "msk", "small", "medium", "large"}

\* the thresholds a caller passes: in order, or not (nothing in the function
\* or in classify_by_size looks at their order)
SizeThresholds == {Thresholds(1, 2), Thresholds(2, 3), Thresholds(2, 1)}

sort_files_with_size_begin ==
    \E dry \in BOOLEAN, thresholds \in SizeThresholds :
        /\ Begin(Config("sort_files_with_size", FALSE, thresholds, FALSE, "%Y-%m", FALSE, "md5"),
                 dry, sort_files_with_size_exclude_dirs)
        /\ stats' = EmptyStats
        /\ duplicate_files' = {}

sort_files_with_size_body ==
    /\ InLoop("sort_files_with_size")
    /\ \E fault \in {"none", "classify", "mkdir", "move", "callback"} :
        LET file_path == files[i]
            size_category == classify_by_size(fs, file_path, call.thresholds)
            type_category == classify_file(file_path)
            dest_folder == root \o <<size_category, type_category>>
            dest_path == FilePath(dest_folder, file_path.name)
        IN  Iterate(file_path, dest_folder, dest_path, <<size_category, type_category>>,
                    type_category, TRUE, TRUE, TRUE, "size", size_category, fault)

----------------------------------------------------------------------------
(* sorter.py: sort_files_with_date *)

sort_files_with_date_exclude_dirs == {"img", "vid", "arc", "msk"}

DateArgs == {[use_creation |-> FALSE, date_format |-> "%Y-%m"],
             [use_creation |-> TRUE, date_format |-> "%Y/%m"]}

sort_files_with_date_begin ==
    \E dry \in BOOLEAN, a \in DateArgs :
        /\ Begin(Config("sort_files_with_date", FALSE, Thresholds(1, 2), a.use_creation,
                        a.date_format, FALSE, "md5"),
                 dry, sort_files_with_date_exclude_dirs)
        /\ stats' = EmptyStats
        /\ duplicate_files' = {}

sort_files_with_date_body ==
    /\ InLoop("sort_files_with_date")
    /\ \E fault \in {"none", "classify", "mkdir", "move", "callback"} :
        LET file_path == files[i]
            date_folder == classify_by_date(fs, file_path, call.use_creation, call.date_format)
            type_category == classify_file(file_path)
            dest_folder == root \o date_folder \o <<type_category>>
            dest_path == FilePath(dest_folder, file_path.name)
        IN  Iterate(file_path, dest_folder, dest_path, date_folder \o <<type_category>>,
                    type_category, TRUE, TRUE, TRUE, "date", date_folder, fault)

----------------------------------------------------------------------------
(* sorter.py: sort_files_archive_mode *)

sort_files_archive_mode_exclude_dirs == {"img", "vid", "arc", "msk"}

sort_files_archive_mode_begin ==
    \E dry \in BOOLEAN, a \in DateArgs, with_type_hierarchy \in BOOLEAN :
        /\ Begin(Config("sort_files_archive_mode", FALSE, Thresholds(1, 2), a.use_creation,
                        a.date_format, with_type_hierarchy, "md5"),
                 dry, sort_files_archive_mode_exclude_dirs)
        /\ stats' = EmptyStats
        /\ duplicate_files' = {}

sort_files_archive_mode_body ==
    /\ InLoop("sort_files_archive_mode")
    /\ \E fault \in {"none", "classify", "mkdir", "move", "callback"} :
        LET file_path == files[i]
            date_folder == classify_by_date(fs, file_path, call.use_creation, call.date_format)
            type_category == classify_file(file_path)
            dest_folder == IF call.with_type_hierarchy
                           THEN root \o date_folder \o <<type_category>>
                           ELSE root \o date_folder
            category_str == IF call.with_type_hierarchy
                            THEN date_folder \o <<type_category>>
                            ELSE date_folder
            dest_path == FilePath(dest_folder, file_path.name)
        IN  Iterate(file_path, dest_folder, dest_path, category_str,
                    type_category, TRUE, TRUE, TRUE, "date", date_folder, fault)

----------------------------------------------------------------------------
(* sorter.py: sort_files_with_duplicates *)

sort_files_with_duplicates_exclude_dirs == {"img", "vid", "arc", "msk", "duplicates"}

\* the hash_algorithm a caller passes: the two supported names, or another
HashAlgorithms == {"md5", "sha256", "crc32"}

\* every file of each group, the first too
flag_duplicates_all(duplicates) ==
    UNION {{duplicates[h][k] : k \in 1..Len(duplicates[h])} : h \in DOMAIN duplicates}

\* all but the first file of each group
flag_duplicates(duplicates) ==
    UNION {{duplicates[h][k] : k \in 2..Len(duplicates[h])} : h \in DOMAIN duplicates}

\* the files compute_hash can open: those of unreadable raise OSError at open()
without(fsys, unreadable) == [p \in DOMAIN fsys \ unreadable |-> fsys[p]]

\* the entry of the function, with open() failing on the files of unreadable
sort_files_with_duplicates_enter(unreadable) ==
    \E dry \in BOOLEAN, hash_algorithm \in HashAlgorithms :
        LET found == find_duplicates(without(fs, unreadable), files', hash_algorithm)
            duplicates == found.value
        IN  /\ Enter(Config("sort_files_with_duplicates", FALSE, Thresholds(1, 2), FALSE, "%Y-%m",
                            FALSE, hash_algorithm) @@ [unreadable |-> unreadable],
                     dry, sort_files_with_duplicates_exclude_dirs,
                     IF found.raised = "none" THEN "loop" ELSE "raised")
            /\ duplicate_files' = IF found.raised = "none" THEN flag_duplicates(duplicates) ELSE {}
            /\ stats' = IF found.raised = "none"
                        THEN [EmptyStats EXCEPT
                                !.space_saved = calculate_space_saved(fs, duplicates),
                                !.duplicates_found = Cardinality(flag_duplicates(duplicates))]
                        ELSE EmptyStats

sort_files_with_duplicates_begin == sort_files_with_duplicates_enter({})

\* the same, one of the files of the tree being unreadable
sort_files_with_duplicates_begin_unreadable ==
    \E f \in DOMAIN fs : sort_files_with_duplicates_enter({f})

sort_files_with_duplicates_body ==
    /\ InLoop("sort_files_with_duplicates")
    /\ \E fault \in {"none", "mkdir", "move", "callback"} :
        LET file_path == files[i]
            is_dup == file_path \in duplicate_files
            type_category == classify_file(file_path)
            dest_folder == IF is_dup THEN root \o <<"duplicates">>
                           ELSE root \o <<type_category>>
            dest_path == IF is_dup
                         THEN FilePath(dest_folder, Name(file_path.name.stem \o "_duplicate",
                                                         file_path.name.ext))
                         ELSE FilePath(dest_folder, file_path.name)
            category_str == IF is_dup THEN <<"duplicates">> ELSE <<type_category>>
        IN  Iterate(file_path, dest_folder, dest_path, category_str,
                    type_category, TRUE, TRUE, ~ is_dup, "none", <<>>, fault)

----------------------------------------------------------------------------
\* `return stats`, once the loop has run over every file
Return ==
    /\ pc = "loop"
    /\ i > Len(files)
    /\ pc' = "done"
    /\ UNCHANGED <<root, movers, fs, dirs, call, dry_run, files, i, stats, duplicate_files,
                   last, before, prev, runs, faults, ret>>

Next ==
    \/ sort_files_begin
    \/ sort_files_body
    \/ sort_files_with_size_begin
    \/ sort_files_with_size_body
    \/ sort_files_with_date_begin
    \/ sort_files_with_date_body
    \/ sort_files_archive_mode_begin
    \/ sort_files_archive_mode_body
    \/ sort_files_with_duplicates_begin
    \/ sort_files_with_duplicates_body
    \/ Return

Spec == Init /\ [][Next]_vars

\* a step of a call that has been entered: the interpreter runs the next pass
\* of the loop, or the return that follows the last
Step ==
    \/ sort_files_body
    \/ sort_files_with_size_body
    \/ sort_files_with_date_body
    \/ sort_files_archive_mode_body
    \/ sort_files_with_duplicates_body
    \/ Return

\* a call that has been entered is run on: nothing suspends the one thread
SpecRunning == Init /\ [][Next]_vars /\ WF_vars(Step)

\* the duplicate-aware mode alone, on trees with a file that cannot be read
NextDuplicateAware ==
    \/ sort_files_with_duplicates_begin
    \/ sort_files_with_duplicates_begin_unreadable
    \/ sort_files_with_duplicates_body
    \/ Return

SpecDuplicateAware == Init /\ [][NextDuplicateAware]_vars

----------------------------------------------------------------------------
(* The functions of scanner.py, duplicates.py and the mover called on their *)
(* own, as the tests call them, on the trees of Init under one root         *)

InitFunctions ==
    \E S \in SUBSET (1..Len(Candidates)) :
        /\ Cardinality(S) <= MaxFiles
        /\ Start(<<"w">>, S)

\* the exclude_dirs a caller passes
ExcludeSets == {{}, {"img"}, {"a"}, {"w"}, {"img", "vid", "arc", "msk"}}

\* the lists of distinct files out of S (a scan lists a file once), in any order
ListsOf(S) == UNION {Perms(T) : T \in SUBSET S}

\* The call returns r; what is on disk afterwards is fsys.
Called(c, r, fsys) ==
    /\ pc = "idle"
    /\ runs < MaxRuns
    /\ call' = c
    /\ ret' = r
    /\ fs' = fsys
    /\ before' = [fs |-> fs, dirs |-> dirs]
    /\ runs' = runs + 1
    /\ UNCHANGED <<root, movers, dirs, dry_run, pc, files, i, stats, duplicate_files, last, prev, faults>>

\* scan_directory(path, exclude_dirs) on a directory of the tree
scan_directory_call ==
    \E path \in dirs, exclude_dirs \in ExcludeSets :
        \E listed \in Perms(scan_directory(fs, path, exclude_dirs)) :
            Called([fn |-> "scan_directory", path |-> path, exclude_dirs |-> exclude_dirs],
                   Returned(listed), fs)

\* generate_unique_filename(dest_path, filename) on a directory of the tree
generate_unique_filename_call ==
    \E dest_path \in dirs, filename \in {p.name : p \in DOMAIN fs} :
        Called([fn |-> "generate_unique_filename", dest_path |-> dest_path, filename |-> filename],
               Returned(generate_unique_filename(fs, dest_path, filename)), fs)

\* move_file_with_conflict_resolution(src, dest, dry_run) into a directory of
\* the tree, under the file's own name or another; a call follows it
move_file_with_conflict_resolution_call ==
    /\ runs + 1 < MaxRuns
    /\ \E src \in DOMAIN fs, dest_dir \in dirs, dry \in BOOLEAN :
       \E dest_name \in {src.name, Name("dup_2", ".txt")} :
            LET dest == FilePath(dest_dir, dest_name)
                mv == move_file_with_conflict_resolution(fs, src, dest, dry)
            IN  Called([fn |-> "move_file_with_conflict_resolution", src |-> src,
                        dest |-> dest, dry_run |-> dry],
                       Returned(mv.ret), mv.fs)

\* a file that was listed and has been removed since
Vanished == FilePath(<<"w", "a">>, Name("gone", ".txt"))

\* find_duplicates(files, algorithm) on a list of files of the tree; the
\* function keeps nothing from one call to the next, so one call is looked at
find_duplicates_call ==
    /\ runs = 0
    /\ \E file_list \in ListsOf(DOMAIN fs \cup {Vanished}), algorithm \in HashAlgorithms :
       Called([fn |-> "find_duplicates", files |-> file_list, algorithm |-> algorithm],
              find_duplicates(fs, file_list, algorithm), fs)

\* the duplicate statistics as sort_files_with_duplicates takes them from the
\* groups: calculate_space_saved(duplicates) and len(duplicate_files)
duplicate_statistics(fsys, duplicates) ==
    [space_saved |-> calculate_space_saved(fsys, duplicates),
     duplicates_found |-> Cardinality(flag_duplicates(duplicates))]

calculate_space_saved_call ==
    /\ runs = 0
    /\ \E file_list \in ListsOf(DOMAIN fs \cup {Vanished}), algorithm \in {"md5", "sha256"} :
       LET duplicates == find_duplicates(fs, file_list, algorithm).value
       IN  Called([fn |-> "calculate_space_saved", duplicates |-> duplicates],
                   Returned(duplicate_statistics(fs, duplicates)), fs)

NextScanner == scan_directory_call

SpecScanner == InitFunctions /\ [][NextScanner]_vars

NextMover ==
    \/ move_file_with_conflict_resolution_call
    \/ generate_unique_filename_call

SpecMover == InitFunctions /\ [][NextMover]_vars

NextDuplicates ==
    \/ find_duplicates_call
    \/ calculate_space_saved_call

\* the candidates of three contents, two of them shared by two files
DuplicateCandidates == {1, 2, 6, 7, 8}

\* trees with room for two groups and a file of a content of its own
InitDuplicates ==
    \E S \in SUBSET DuplicateCandidates :
        /\ Cardinality(S) <= MaxFiles + 1
        /\ Start(<<"w">>, S)

SpecDuplicates == InitDuplicates /\ [][NextDuplicates]_vars

----------------------------------------------------------------------------
(* Two calls of the mover toward one destination path, one after the other  *)
(* or side by side.  A call is two steps, as in the code: the existence     *)
(* check with the choice of the name (sorter.py:197 and 202-203), and       *)
(* shutil.move (sorter.py:198 and 204).                                     *)

\* the path a real call settles on before it moves
choose_dest(fsys, dest) ==
    IF ~ exists(fsys, dest) THEN dest
    ELSE FilePath(dest.dir, generate_unique_filename(fsys, dest.dir, dest.name))

\* two files of the tree are to be moved to dest, by two calls that follow
\* each other (a single thread) or run concurrently
movers_start ==
    /\ pc = "idle"
    /\ runs = 0
    /\ \E src1, src2 \in DOMAIN fs, dest_dir \in dirs, concurrent \in BOOLEAN :
        /\ src1 # src2
        /\ LET dest == FilePath(dest_dir, src1.name)
           IN  /\ dest \notin {src1, src2}
               /\ call' = [fn |-> "move_file_with_conflict_resolution", dest |-> dest,
                           concurrent |-> concurrent]
               /\ movers' = [m \in {1, 2} |->
                                [at |-> "called", src |-> IF m = 1 THEN src1 ELSE src2,
                                 chosen |-> NoPath, free |-> TRUE]]
    /\ before' = [fs |-> fs, dirs |-> dirs]
    /\ runs' = runs + 1
    /\ UNCHANGED <<root, fs, dirs, dry_run, pc, files, i, stats, duplicate_files, last, prev, faults, ret>>

\* in a single thread the second call starts when the first has returned
may_step(m) == call.concurrent \/ m = 1 \/ movers[1].at = "returned"

\* dest.exists(), and generate_unique_filename when it does
mover_check(m) ==
    /\ movers # <<>>
    /\ movers[m].at = "called"
    /\ may_step(m)
    /\ movers' = [movers EXCEPT ![m].at = "checked", ![m].chosen = choose_dest(fs, call.dest)]
    /\ UNCHANGED <<root, fs, dirs, call, dry_run, pc, files, i, stats, duplicate_files, last, before, prev, runs, faults, ret>>

\* shutil.move(src, chosen); free keeps whether the name was still free
mover_move(m) ==
    /\ movers # <<>>
    /\ movers[m].at = "checked"
    /\ fs' = shutil_move(fs, movers[m].src, movers[m].chosen)
    /\ movers' = [movers EXCEPT ![m].at = "returned", ![m].free = ~ exists(fs, movers[m].chosen)]
    /\ UNCHANGED <<root, dirs, call, dry_run, pc, files, i, stats, duplicate_files, last, before, prev, runs, faults, ret>>

NextConcurrentMovers ==
    \/ movers_start
    \/ \E m \in {1, 2} : mover_check(m)
    \/ \E m \in {1, 2} : mover_move(m)

SpecConcurrentMovers == InitFunctions /\ [][NextConcurrentMovers]_vars

----------------------------------------------------------------------------
(* apply_filters called on its own, on lists of paths of a tree             *)

\* the candidates of four extensions, two of them spelled in upper case
FilterCandidates == {1, 5, 6, 8}

InitFilters == \E S \in SUBSET FilterCandidates : Start(<<"w">>, S)

\* the lists of at most MaxFiles paths out of S, a path as often as it comes
RepeatingListsOf(S) == UNION {[1..n -> S] : n \in 0..MaxFiles}

PatternLists == {<<>>, <<"*.txt">>, <<"dup*", "*.mp4">>, <<"*_1*", "*.jpg">>}

IncludeExtensionSets == {{}, {".jpg", ".txt"}, {".MP4", ".Txt"}}

ExcludeExtensionSets == {{}, {".txt"}, {".JPG", ".zip"}}

apply_filters_call ==
    /\ runs = 0
    /\ \E file_list \in RepeatingListsOf(DOMAIN fs) :
       \E ip \in PatternLists, ep \in PatternLists :
       \E ie \in IncludeExtensionSets, ee \in ExcludeExtensionSets :
            LET config == FilterConfig(ip, ep, ie, ee)
            IN  Called([fn |-> "apply_filters", files |-> file_list, config |-> config],
                       Returned(apply_filters(file_list, config)), fs)

NextFilters == apply_filters_call

SpecFilters == InitFilters /\ [][NextFilters]_vars

----------------------------------------------------------------------------
(* cleaner.py called on its own and in the cleanup loop, on trees with      *)
(* empty directories                                                        *)

MaxEmpty == 2

\* the files of the trees: a/dup.txt and a/img/x.txt
CleanerCandidates == {1, 7}

\* directories made with nothing in them, relative to the root
EmptyCandidates ==
    {<<"x", "y", "z">>, <<"x", "msk">>, <<"img">>, <<"a", "e">>, <<"img", "t">>, <<"u">>}

InitCleaner ==
    \E S \in SUBSET CleanerCandidates, E \in SUBSET EmptyCandidates :
        /\ Cardinality(E) <= MaxEmpty
        /\ StartOn(<<"w">>, TreeOf(<<"w">>, S),
                   DirsOf(<<"w">>, S) \cup UNION {Prefixes(<<"w">> \o e) : e \in E})

\* the preserve_dirs of main, and none
PreserveSets == {{"img", "vid", "arc", "msk"}, {}}

\* a directory that was listed and has been removed since
VanishedDir == <<"w", "gone">>

\* The call returns r; the directories on disk afterwards are ds.
CalledOnDirs(c, r, ds) ==
    /\ pc = "idle"
    /\ runs = 0
    /\ call' = c
    /\ ret' = r
    /\ dirs' = ds
    /\ before' = [fs |-> fs, dirs |-> dirs]
    /\ runs' = runs + 1
    /\ UNCHANGED <<root, movers, fs, dry_run, pc, files, i, stats, duplicate_files, last, prev, faults>>

\* find_empty_directories(root_path, preserve_dirs) on a directory of the tree
find_empty_directories_call ==
    /\ runs = 0
    /\ \E root_path \in dirs, preserve_dirs \in PreserveSets :
        \E empty_dirs \in Perms(find_empty_directories(fs, dirs, root_path, preserve_dirs)) :
            CalledOnDirs([fn |-> "find_empty_directories", root_path |-> root_path,
                          preserve_dirs |-> preserve_dirs],
                         Returned(empty_dirs), dirs)

\* remove_empty_directories(directories) on what a find_empty_directories
\* returns, in any order, with or without one directory more: one that is not
\* empty, or that is gone since; the environment refuses the removal of at
\* most MaxFaults of them
remove_empty_directories_call ==
    /\ runs = 0
    /\ \E preserve_dirs \in PreserveSets, stale \in SUBSET ((dirs \ Prefixes(root)) \cup {VanishedDir}) :
        /\ Cardinality(stale) <= 1
        /\ \E directories \in Perms(find_empty_directories(fs, dirs, root, preserve_dirs) \cup stale) :
           \E unremovable \in SUBSET Range(directories) :
            /\ Cardinality(unremovable) <= MaxFaults
            /\ LET removed == remove_empty_directories(fs, dirs, directories, unremovable)
               IN  CalledOnDirs([fn |-> "remove_empty_directories", directories |-> directories,
                                 unremovable |-> unremovable],
                                Returned(removed.removed_count), removed.dirs)

NextCleaner ==
    \/ find_empty_directories_call
    \/ remove_empty_directories_call

SpecCleaner == InitCleaner /\ [][NextCleaner]_vars

\* The cleanup: main calls find_empty_directories and then
\* remove_empty_directories on its result, once; the loop of the cleaner's
\* property test repeats the pair until nothing is found or nothing is
\* removed.  runs counts the pairs made.
cleanup_find ==
    /\ pc \in {"idle", "removed"}
    /\ \E preserve_dirs \in PreserveSets :
        /\ pc = "removed" => preserve_dirs = call.preserve_dirs
        /\ \E empty_dirs \in Perms(find_empty_directories(fs, dirs, root, preserve_dirs)) :
            /\ call' = [fn |-> "cleanup", preserve_dirs |-> preserve_dirs]
            /\ files' = empty_dirs
            /\ pc' = IF empty_dirs = <<>> THEN "cleaned" ELSE "found"
    /\ UNCHANGED <<root, movers, fs, dirs, dry_run, i, stats, duplicate_files, last, before, prev, runs, faults, ret>>

cleanup_remove ==
    /\ pc = "found"
    /\ \E unremovable \in SUBSET Range(files) :
        /\ Cardinality(unremovable) <= MaxFaults - faults
        /\ LET removed == remove_empty_directories(fs, dirs, files, unremovable)
           IN  /\ dirs' = removed.dirs
               /\ ret' = Returned(removed.removed_count)
               /\ pc' = IF removed.removed_count = 0 THEN "cleaned" ELSE "removed"
        /\ faults' = faults + Cardinality(unremovable)
    /\ runs' = runs + 1
    /\ UNCHANGED <<root, movers, fs, call, dry_run, files, i, stats, duplicate_files, last, before, prev>>

NextCleanup ==
    \/ cleanup_find
    \/ cleanup_remove

\* the loop is sequential code: a step that can be taken is taken
SpecCleanup == InitCleaner /\ [][NextCleanup]_vars /\ WF_vars(NextCleanup)

----------------------------------------------------------------------------
(* The statistics object called on its own, once per file of a tree         *)

\* stats.increment(category), as the sort functions call it, and
\* stats.increment(category, size, filename, conflict=...), as the property
\* tests of the statistics call it; files keeps the arguments of the calls
increment_call ==
    /\ pc = "idle"
    /\ runs < MaxRuns
    /\ \E file_path \in DOMAIN fs, conflict \in BOOLEAN, sized \in BOOLEAN :
        LET category == classify_file(file_path)
            arguments == IF sized
                         THEN <<category, get_file_size(fs, file_path), file_path.name, conflict>>
                         ELSE <<category>>
            returned == call_increment(stats, arguments)
        IN  /\ call' = [fn |-> "increment", arguments |-> arguments]
            /\ ret' = returned
            /\ stats' = IF returned.raised = "none" THEN returned.value ELSE stats
            /\ files' = Append(files, arguments)
    /\ runs' = runs + 1
    /\ UNCHANGED <<root, movers, fs, dirs, dry_run, pc, i, duplicate_files, last, before, prev, faults>>

NextStatistics == increment_call

SpecStatistics == InitFunctions /\ [][NextStatistics]_vars

----------------------------------------------------------------------------
(* The two classifiers called on their own, on one file of some size under  *)
(* some spelling of an extension                                            *)

MaxSize == 5

\* str.upper() of the lowercase extensions
UpperOf ==
       (".jpg" :> ".JPG") @@ (".jpeg" :> ".JPEG") @@ (".png" :> ".PNG")
    @@ (".gif" :> ".GIF") @@ (".bmp" :> ".BMP") @@ (".tiff" :> ".TIFF")
    @@ (".webp" :> ".WEBP") @@ (".svg" :> ".SVG") @@ (".mp4" :> ".MP4")
    @@ (".avi" :> ".AVI") @@ (".mov" :> ".MOV") @@ (".mkv" :> ".MKV")
    @@ (".wmv" :> ".WMV") @@ (".flv" :> ".FLV") @@ (".webm" :> ".WEBM")
    @@ (".m4v" :> ".M4V") @@ (".mpg" :> ".MPG") @@ (".mpeg" :> ".MPEG")
    @@ (".zip" :> ".ZIP") @@ (".rar" :> ".RAR") @@ (".7z" :> ".7Z")
    @@ (".tar" :> ".TAR") @@ (".gz" :> ".GZ") @@ (".bz2" :> ".BZ2")
    @@ (".xz" :> ".XZ") @@ (".iso" :> ".ISO") @@ (".txt" :> ".TXT")
    @@ (".md" :> ".MD")

\* str.title() of the lowercase extensions
TitleOf ==
       (".jpg" :> ".Jpg") @@ (".jpeg" :> ".Jpeg") @@ (".png" :> ".Png")
    @@ (".gif" :> ".Gif") @@ (".bmp" :> ".Bmp") @@ (".tiff" :> ".Tiff")
    @@ (".webp" :> ".Webp") @@ (".svg" :> ".Svg") @@ (".mp4" :> ".Mp4")
    @@ (".avi" :> ".Avi") @@ (".mov" :> ".Mov") @@ (".mkv" :> ".Mkv")
    @@ (".wmv" :> ".Wmv") @@ (".flv" :> ".Flv") @@ (".webm" :> ".Webm")
    @@ (".m4v" :> ".M4V") @@ (".mpg" :> ".Mpg") @@ (".mpeg" :> ".Mpeg")
    @@ (".zip" :> ".Zip") @@ (".rar" :> ".Rar") @@ (".7z" :> ".7Z")
    @@ (".tar" :> ".Tar") @@ (".gz" :> ".Gz") @@ (".bz2" :> ".Bz2")
    @@ (".xz" :> ".Xz") @@ (".iso" :> ".Iso") @@ (".txt" :> ".Txt")
    @@ (".md" :> ".Md")

\* the lowercase extensions with every other letter in upper case
MixedOf ==
       (".jpg" :> ".JpG") @@ (".jpeg" :> ".JpEg") @@ (".png" :> ".PnG")
    @@ (".gif" :> ".GiF") @@ (".bmp" :> ".BmP") @@ (".tiff" :> ".TiFf")
    @@ (".webp" :> ".WeBp") @@ (".svg" :> ".SvG") @@ (".mp4" :> ".Mp4")
    @@ (".avi" :> ".AvI") @@ (".mov" :> ".MoV") @@ (".mkv" :> ".MkV")
    @@ (".wmv" :> ".WmV") @@ (".flv" :> ".FlV") @@ (".webm" :> ".WeBm")
    @@ (".m4v" :> ".M4V") @@ (".mpg" :> ".MpG") @@ (".mpeg" :> ".MpEg")
    @@ (".zip" :> ".ZiP") @@ (".rar" :> ".RaR") @@ (".7z" :> ".7z")
    @@ (".tar" :> ".TaR") @@ (".gz" :> ".Gz") @@ (".bz2" :> ".Bz2")
    @@ (".xz" :> ".Xz") @@ (".iso" :> ".IsO") @@ (".txt" :> ".TxT")
    @@ (".md" :> ".Md")

\* the spellings of the lowercase extension e
Spellings(e) == {e, UpperOf[e], TitleOf[e], MixedOf[e]}

\* the suffixes a file comes with: every spelling of the extensions of the
\* three tables and of two extensions of no table, and no extension at all
Suffixes == UNION {Spellings(e) : e \in DOMAIN UpperOf} \cup {""}

Classified(ext) == FilePath(<<"w">>, Name("f", ext))

\* a file of n bytes
Bytes(n) == [k \in 1..n |-> 0]

InitClassifiers ==
    \E n \in 0..MaxSize, ext \in Suffixes :
        StartOn(<<"w">>,
                (Classified(ext) :> [ino |-> 1, content |-> Bytes(n), mtime |-> Jan, ctime |-> Jan]),
                {<<"w">>})

\* classify_by_size(file_path, thresholds) under any pair of thresholds,
\* ordered or not (SizeThresholds has no __post_init__ check)
classify_by_size_call ==
    /\ runs = 0
    /\ \E file_path \in DOMAIN fs, small_max, medium_max \in 1..(MaxSize - 1) :
       LET thresholds == Thresholds(small_max, medium_max)
       IN  Called([fn |-> "classify_by_size", file_path |-> file_path, thresholds |-> thresholds],
                   Returned(classify_by_size(fs, file_path, thresholds)), fs)

\* classify_file(file_path)
classify_file_call ==
    /\ runs = 0
    /\ \E file_path \in DOMAIN fs :
       Called([fn |-> "classify_file", file_path |-> file_path],
              Returned(classify_file(file_path)), fs)

NextClassifiers ==
    \/ classify_by_size_call
    \/ classify_file_call

SpecClassifiers == InitClassifiers /\ [][NextClassifiers]_vars

----------------------------------------------------------------------------
(* Vocabulary of the properties *)

Categories == {"img", "vid", "arc", "msk"}

RealRun == ~ dry_run /\ pc \in {"loop", "done", "aborted"}

\* the call returned and the environment failed none of its steps
CleanDone == pc = "done" /\ faults = 0

\* the folder section 4.6 of the specification routes a scanned file to
ExpectedFolder(f) ==
    CASE call.fn = "sort_files" -> root \o <<classify_file(f)>>
      [] call.fn = "sort_files_with_size" ->
            root \o <<classify_by_size(before.fs, f, call.thresholds), classify_file(f)>>
      [] call.fn = "sort_files_with_date" ->
            root \o classify_by_date(before.fs, f, call.use_creation, call.date_format)
                 \o <<classify_file(f)>>
      [] call.fn = "sort_files_archive_mode" ->
            root \o classify_by_date(before.fs, f, call.use_creation, call.date_format)
                 \o (IF call.with_type_hierarchy THEN <<classify_file(f)>> ELSE <<>>)
      [] call.fn = "sort_files_with_duplicates" ->
            root \o (IF f \in duplicate_files THEN <<"duplicates">> ELSE <<classify_file(f)>>)
      [] OTHER -> root

\* the file that was at path p when the call started is now at path q, intact
SameFile(p, q) ==
    /\ q \in DOMAIN fs
    /\ fs[q].ino = before.fs[p].ino
    /\ fs[q].content = before.fs[p].content

Scanned == Range(files)

SameTarget(f, g) == f # g /\ f.name = g.name /\ ExpectedFolder(f) = ExpectedFolder(g)

\* the mover was called in the step and returned
MoverReturned == pc = "loop" /\ pc' # "done" /\ last'.called

EntriesOf(fsys, dir) == {p \in DOMAIN fsys : p.dir = dir}

Counters(st) ==
    [total_files |-> st.total_files, img_count |-> st.img_count, vid_count |-> st.vid_count,
     arc_count |-> st.arc_count, msk_count |-> st.msk_count,
     size_categories |-> st.size_categories, date_categories |-> st.date_categories]

----------------------------------------------------------------------------
C2_NeverOverwrites ==
    [][(MoverReturned /\ ~ dry_run /\ last'.existed /\ last'.src # last'.dest) =>
        LET src == last'.src
            dest == last'.dest
            new == EntriesOf(fs', dest.dir) \ EntriesOf(fs, dest.dir)
        IN  /\ dest \in DOMAIN fs'
            /\ fs'[dest] = fs[dest]
            /\ src \notin DOMAIN fs'
            /\ new = {last'.ret}
            /\ last'.ret.name # dest.name
            /\ fs'[last'.ret].ino = fs[src].ino
            /\ fs'[last'.ret].content = fs[src].content]_vars

C2_Witness ==
    /\ ~ dry_run
    /\ last.called
    /\ last.existed
    /\ last.src # last.dest
    /\ last.ret # last.dest

(* C3: a dry run changes nothing on disk, in every mode: at every point of  *)
(* a call with dry_run=True the files, their data and the directories are   *)
(* those the call started with.                                             *)
C3_DryRunNoOp ==
    (dry_run /\ pc \in {"loop", "done", "aborted"}) =>
        /\ fs = before.fs
        /\ dirs = before.dirs

\* a dry run of a hierarchical mode over a tree with a name collision
C3_Witness ==
    /\ dry_run
    /\ pc = "done"
    /\ call.fn = "sort_files_archive_mode"
    /\ stats.total_files >= 2
    /\ last.existed = FALSE
    /\ \E f, g \in Scanned : SameTarget(f, g)
    /\ \E f \in Scanned : ExpectedFolder(f) \notin dirs

(* C4: error isolation in every mode: a failure while one file is processed *)
(* is caught and appended to the error list and the run goes on to its end. *)
C4_ErrorIsolation ==
    faults > 0 =>
        /\ pc # "aborted"
        /\ Len(stats.errors) = faults

(* C5: plain-mode re-sort is idempotent: a sort_files call that follows a   *)
(* real sort_files call on the same tree scans no file, counts no file and  *)
(* moves or renames nothing.                                                *)
C5_PlainResortIdempotent ==
    (call.fn = "sort_files" /\ prev.ran /\ ~ prev.dry /\ pc \in {"loop", "done"}) =>
        /\ files = <<>>
        /\ stats.total_files = 0
        /\ fs = before.fs

C5_Witness ==
    /\ call.fn = "sort_files"
    /\ prev.ran
    /\ ~ prev.dry
    /\ ~ dry_run
    /\ pc = "done"
    /\ prev.stats.total_files >= 2

(* C6: every other mode excludes its own destination folders too: a call of *)
(* the size, date, archive or duplicate-aware sort that follows a real call *)
(* of the same mode scans no file and renames nothing.                      *)
C6_ModesResortIdempotent ==
    (call.fn \notin {"none", "sort_files"} /\ prev.ran /\ ~ prev.dry /\ pc \in {"loop", "done"}) =>
        /\ files = <<>>
        /\ stats.total_files = 0
        /\ fs = before.fs

(* C7: the counters a dry run returns are those a real run on the same tree *)
(* returns, in every mode (neither run meeting a failure).                  *)
C7_DryRunCountersMatch ==
    (prev.ran /\ prev.dry /\ ~ dry_run /\ CleanDone) =>
        Counters(stats) = Counters(prev.stats)

C7_Witness ==
    /\ prev.ran
    /\ prev.dry
    /\ ~ dry_run
    /\ CleanDone
    /\ stats.total_files >= 2
    /\ last.existed
    /\ call.fn = "sort_files_with_size"

(* C8: in a dry run the mover returns the path a real move would use in the *)
(* same directory state.                                                    *)
C8_DryRunReturnsRealPath ==
    (dry_run /\ last.called) =>
        last.ret = move_file_with_conflict_resolution(fs, last.src, last.dest, FALSE).ret

(* C9: the statistics are consistent in every state: the four category      *)
(* counts add up to total_files, and so do the size buckets in size mode    *)
(* and the date buckets in date and archive mode.                           *)
C9_StatisticsConsistent ==
    /\ stats.img_count + stats.vid_count + stats.arc_count + stats.msk_count = stats.total_files
    /\ call.fn = "sort_files_with_size" =>
        SumOver(stats.size_categories, DOMAIN stats.size_categories) = stats.total_files
    /\ call.fn \in {"sort_files_with_date", "sort_files_archive_mode"} =>
        SumOver(stats.date_categories, DOMAIN stats.date_categories) = stats.total_files

\* two buckets, one of them counted twice, and a failure after the counting
C9_Witness ==
    /\ call.fn = "sort_files_with_size"
    /\ pc = "done"
    /\ Cardinality(DOMAIN stats.size_categories) = 2
    /\ stats.total_files = 3
    /\ Len(stats.errors) = 1

----------------------------------------------------------------------------
\* the category each extension of the modelled trees belongs to (section 3)
ExpectedCategory(ext) ==
    CASE ext \in {".jpg", ".JPG", ".Jpg"} -> "img"
      [] ext \in {".mp4", ".MP4"} -> "vid"
      [] ext \in {".zip", ".ZIP", ".Zip"} -> "arc"
      [] OTHER -> "msk"

CountOf(st, c) ==
    CASE c = "img" -> st.img_count
      [] c = "vid" -> st.vid_count
      [] c = "arc" -> st.arc_count
      [] c = "msk" -> st.msk_count

\* no file lies in or below a category folder of source_path
FoldersStartEmpty ==
    \A p \in DOMAIN before.fs : \A c \in Categories : ~ IsPrefix(root \o <<c>>, p.dir)

\* the files with no directory named after a category anywhere on their path
Sortable == {p \in DOMAIN before.fs : \A k \in 1..Len(p.dir) : p.dir[k] \notin Categories}

PlainRunDone == call.fn = "sort_files" /\ ~ dry_run /\ CleanDone /\ FoldersStartEmpty

----------------------------------------------------------------------------
(* Vocabulary of the properties of the functions called on their own *)

CalledFn(fn) == call.fn = fn /\ ret.raised = "none"

\* the files at any depth under directory path
FilesUnder(fsys, path) == {p \in DOMAIN fsys : IsPrefix(path, p.dir)}

\* the directories between path and file p: below path, down to p's own
AncestorsBelow(path, p) == {SubSeq(p.dir, 1, n) : n \in (Len(path) + 1)..Len(p.dir)}

\* the files section 4.2 of the specification has the scan return
ExpectedScan(fsys, path, excluded) ==
    {p \in FilesUnder(fsys, path) : \A d \in AncestorsBelow(path, p) : d[Len(d)] \notin excluded}

\* a directory name on the path of the scan root, its own included, is excluded
RootPathExcluded == \E d \in Prefixes(call.path) : d[Len(d)] \in call.exclude_dirs

----------------------------------------------------------------------------
(* C11: scan_directory(root, excluded) returns exactly the regular files    *)
(* under root with no directory between root and the file named in          *)
(* excluded, each exactly once; with excluded empty, every file at every    *)
(* depth under root.                                                        *)
C11_ScanReturnsExactly ==
    CalledFn("scan_directory") =>
        /\ Range(ret.value) = ExpectedScan(fs, call.path, call.exclude_dirs)
        /\ Len(ret.value) = Cardinality(Range(ret.value))
        /\ call.exclude_dirs = {} => Range(ret.value) = FilesUnder(fs, call.path)

\* the same, for the calls in which no name on root's own path is excluded
C11_ScanReturnsExactlyBelowPlainRoot ==
    (CalledFn("scan_directory") /\ ~ RootPathExcluded) =>
        /\ Range(ret.value) = ExpectedScan(fs, call.path, call.exclude_dirs)
        /\ Len(ret.value) = Cardinality(Range(ret.value))
        /\ call.exclude_dirs = {} => Range(ret.value) = FilesUnder(fs, call.path)

----------------------------------------------------------------------------
(* C12: the scan root is always traversed.  When root's own name, or the    *)
(* name of a directory above root, is in the excluded set, scan_directory   *)
(* still returns the files under root that no excluded directory below root *)
(* hides.                                                                   *)
C12_RootAlwaysTraversed ==
    (CalledFn("scan_directory") /\ RootPathExcluded) =>
        ExpectedScan(fs, call.path, call.exclude_dirs) \subseteq Range(ret.value)

----------------------------------------------------------------------------
(* C13: generate_unique_filename(destDir, filename) returns stem_k + ext    *)
(* for the least k >= 1 whose name is absent from destDir (stem_1 ..        *)
(* stem_(k-1) are all present); the result names no existing entry of       *)
(* destDir and keeps the extension of filename.                             *)
C13_LeastFreeSuffix ==
    CalledFn("generate_unique_filename") =>
        LET filename == call.filename
            candidate(k) == Name(filename.stem \o "_" \o ToString(k), filename.ext)
            present(k) == FilePath(call.dest_path, candidate(k)) \in DOMAIN fs
        IN  /\ \E k \in 1..(Cardinality(DOMAIN fs) + 1) :
                /\ ret.value = candidate(k)
                /\ ~ present(k)
                /\ \A j \in 1..(k - 1) : present(j)
            /\ FilePath(call.dest_path, ret.value) \notin DOMAIN fs
            /\ ret.value.ext = filename.ext

\* dup_1.txt and dup_2.txt are in the directory: the third name is returned
C13_Witness ==
    /\ CalledFn("generate_unique_filename")
    /\ call.filename = Name("dup", ".txt")
    /\ FilePath(call.dest_path, Name("dup_1", ".txt")) \in DOMAIN fs
    /\ FilePath(call.dest_path, Name("dup_2", ".txt")) \in DOMAIN fs
    /\ ret.value = Name("dup_3", ".txt")

----------------------------------------------------------------------------
(* C14: when dest does not exist, move_file_with_conflict_resolution(src,   *)
(* dest, dry_run=False) moves src to exactly dest and returns dest:         *)
(* afterwards dest is the file src was (same inode, same content) under the *)
(* basename asked for, src is gone and no other file has changed.           *)
C14_MoveToFreeDest ==
    (/\ CalledFn("move_file_with_conflict_resolution")
     /\ ~ call.dry_run
     /\ call.dest \notin DOMAIN before.fs) =>
        /\ ret.value = call.dest
        /\ ret.value.name = call.dest.name
        /\ call.dest \in DOMAIN fs
        /\ fs[call.dest].content = before.fs[call.src].content
        /\ fs[call.dest].ino = before.fs[call.src].ino
        /\ call.src \notin DOMAIN fs
        /\ DOMAIN fs = (DOMAIN before.fs \ {call.src}) \cup {call.dest}
        /\ \A p \in DOMAIN before.fs \ {call.src} : fs[p] = before.fs[p]

\* a file moved under its own name into another directory, where the name is free
C14_Witness ==
    /\ CalledFn("move_file_with_conflict_resolution")
    /\ ~ call.dry_run
    /\ call.dest \notin DOMAIN before.fs
    /\ call.dest.name = call.src.name
    /\ call.dest.dir # call.src.dir
    /\ call.dest \in DOMAIN fs
    /\ Cardinality(DOMAIN before.fs) > 1

----------------------------------------------------------------------------
(* C15: each mode derives the destination as specified -- plain             *)
(* root/type/filename, size root/sizeCategory/type/filename, date           *)
(* root/dateBucket/type/filename, archive flat root/dateBucket/filename,    *)
(* archive with type root/dateBucket/type/filename -- and the recorded      *)
(* operation's destination lies in that folder, with exactly that many path *)
(* components below root (2, 3, 3, 2, 3).                                   *)

\* the path components below root that section 4.6 gives the destination
ComponentsBelowRoot ==
    CASE call.fn = "sort_files" -> 2
      [] call.fn = "sort_files_with_size" -> 3
      [] call.fn = "sort_files_with_date" -> 3
      [] call.fn = "sort_files_archive_mode" -> IF call.with_type_hierarchy THEN 3 ELSE 2
      [] OTHER -> 0

Recording == call.fn # "sort_files" \/ call.record_operations

\* an iteration of one of the five modes of the claim has called the mover
DestinationDerived ==
    /\ pc \in {"loop", "done"}
    /\ call.fn \in {"sort_files", "sort_files_with_size", "sort_files_with_date",
                    "sort_files_archive_mode"}
    /\ last.called

DerivedAsSpecified ==
    /\ last.dest = FilePath(ExpectedFolder(last.src), last.src.name)
    /\ Recording =>
        LET operation == stats.operations[Len(stats.operations)]
        IN  /\ operation.source = last.src
            /\ operation.destination.dir = ExpectedFolder(last.src)
            /\ Len(operation.destination.dir) + 1 - Len(root) = ComponentsBelowRoot

C15_DestinationPerMode == DestinationDerived => DerivedAsSpecified

\* the same, for the date formats that name one folder
C15_DestinationPerModeOneFolderFormat ==
    (DestinationDerived /\ call.date_format = "%Y-%m") => DerivedAsSpecified

----------------------------------------------------------------------------
(* C16: in duplicate-aware mode every file that is not the first member of  *)
(* its hash group (an earlier file of the scan has the same content) is     *)
(* moved to root/duplicates/ with "_duplicate" inserted before its          *)
(* extension, and every other file to root/<type category>/<filename> as in *)
(* plain mode: that is the destination handed to the mover, and after a     *)
(* real run that returned with no failure the file is there, under that     *)
(* name or, the name being taken, under the mover's next free name.         *)

\* an earlier file of the scan has the content of files[k]
NotFirstOfGroup(k) ==
    \E j \in 1..(k - 1) : before.fs[files[j]].content = before.fs[files[k]].content

\* the destination the claim gives files[k]
DuplicateAwareDest(k) ==
    IF NotFirstOfGroup(k)
    THEN FilePath(root \o <<"duplicates">>,
                  Name(files[k].name.stem \o "_duplicate", files[k].name.ext))
    ELSE FilePath(root \o <<classify_file(files[k])>>, files[k].name)

\* path q is dest, or dest with one of the mover's conflict suffixes
AtOrBeside(q, dest) ==
    /\ q.dir = dest.dir
    /\ \/ q.name = dest.name
       \/ \E n \in 1..(Cardinality(DOMAIN before.fs) + 1) :
            /\ q.name = Name(dest.name.stem \o "_" \o ToString(n), dest.name.ext)
            /\ dest \in DOMAIN fs

DuplicateAwareRun ==
    /\ call.fn = "sort_files_with_duplicates"
    /\ ~ dry_run
    /\ faults = 0
    /\ pc \in {"loop", "done"}

C16_DuplicatesRouted ==
    DuplicateAwareRun =>
        /\ last.called => last.dest = DuplicateAwareDest(i - 1)
        /\ \A k \in 1..(i - 1) :
            \E q \in DOMAIN fs : SameFile(files[k], q) /\ AtOrBeside(q, DuplicateAwareDest(k))

\* a run that returned after moving a first member to its type folder and two
\* further members of its group to root/duplicates/, where their names collide
C16_Witness ==
    /\ DuplicateAwareRun
    /\ pc = "done"
    /\ Len(files) = 3
    /\ ~ NotFirstOfGroup(1) /\ NotFirstOfGroup(2) /\ NotFirstOfGroup(3)
    /\ files[2].name = files[3].name
    /\ FilePath(root \o <<"duplicates">>, Name("dup_duplicate_1", ".txt")) \in DOMAIN fs
    /\ FilePath(root \o <<"msk">>, Name("dup", ".txt")) \in DOMAIN fs

----------------------------------------------------------------------------
(* C17: find_duplicates(files, algorithm) returns exactly the groups of two *)
(* or more input files with identical content: every group has at least    *)
(* two members, all with the same content, and holds every readable input   *)
(* file with that content; a file whose content no other input file has is  *)
(* in no group; and each group lists its members in input order.            *)

\* the input files that can be read
Readable == {f \in Range(call.files) : f \in DOMAIN fs}

PositionOf(f) == CHOOSE k \in 1..Len(call.files) : call.files[k] = f

InInputOrder(group) ==
    \A a, b \in 1..Len(group) : a < b => PositionOf(group[a]) < PositionOf(group[b])

C17_GroupsOfIdenticalContent ==
    CalledFn("find_duplicates") =>
        LET groups == ret.value
            InGroup(f) == \E h \in DOMAIN groups : f \in Range(groups[h])
        IN  /\ \A h \in DOMAIN groups :
                /\ Len(groups[h]) >= 2
                /\ Range(groups[h]) \subseteq Readable
                /\ \A f, g \in Range(groups[h]) : fs[f].content = fs[g].content
                /\ \A f \in Readable :
                    fs[f].content = fs[groups[h][1]].content => f \in Range(groups[h])
                /\ InInputOrder(groups[h])
            /\ \A f \in Readable :
                InGroup(f) <=> \E g \in Readable \ {f} : fs[g].content = fs[f].content

\* two pairs of files of one content each, one pair listed against the order
\* of its inodes, with a file that is gone: two groups of two
C17_Witness ==
    /\ CalledFn("find_duplicates")
    /\ Len(call.files) = 5
    /\ Vanished \in Range(call.files)
    /\ Cardinality(DOMAIN ret.value) = 2
    /\ \E h \in DOMAIN ret.value :
        /\ Len(ret.value[h]) = 2
        /\ fs[ret.value[h][1]].ino > fs[ret.value[h][2]].ino

----------------------------------------------------------------------------
(* C18: calculate_space_saved(groups) is the sum over all groups of         *)
(* (memberCount - 1) * size of the group's first member, and the number of  *)
(* duplicates is the sum over all groups of (memberCount - 1).              *)
C18_SpaceSavedAndDuplicateCount ==
    CalledFn("calculate_space_saved") =>
        LET groups == call.duplicates
            extra == [h \in DOMAIN groups |-> Len(groups[h]) - 1]
            saved == [h \in DOMAIN groups |-> extra[h] * Len(fs[groups[h][1]].content)]
        IN  /\ ret.value.space_saved = SumOver(saved, DOMAIN groups)
            /\ ret.value.duplicates_found = SumOver(extra, DOMAIN groups)

\* two groups of two files, of one byte and of two bytes: three bytes saved,
\* two duplicates
C18_Witness ==
    /\ CalledFn("calculate_space_saved")
    /\ Cardinality(DOMAIN call.duplicates) = 2
    /\ \E h \in DOMAIN call.duplicates : Len(fs[call.duplicates[h][1]].content) = 1
    /\ \E h \in DOMAIN call.duplicates : Len(fs[call.duplicates[h][1]].content) = 2
    /\ ret.value.space_saved = 3
    /\ ret.value.duplicates_found = 2

----------------------------------------------------------------------------
(* C19: invalid size thresholds are fatal before any mutation.  A           *)
(* size-hierarchy sort started with small_max >= medium_max raises before   *)
(* any file is moved or any folder is created: the call is left with an     *)
(* exception, its loop never entered, the disk as it was.                   *)
C19_InvalidThresholdsFatal ==
    (/\ call.fn = "sort_files_with_size"
     /\ call.thresholds.small_max >= call.thresholds.medium_max) =>
        /\ pc = "raised"
        /\ fs = before.fs
        /\ dirs = before.dirs

----------------------------------------------------------------------------
(* C20: an unsupported hash algorithm is fatal before any mutation.  For    *)
(* every input tree, sort_files_with_duplicates called with an algorithm    *)
(* other than md5 or sha256 raises before any file is moved or any folder   *)
(* is created: the call is left with an exception, its loop never entered,  *)
(* the disk as it was.                                                      *)
UnsupportedAlgorithmCall ==
    /\ call.fn = "sort_files_with_duplicates"
    /\ call.hash_algorithm \notin {"md5", "sha256"}

C20_UnsupportedAlgorithmFatal ==
    UnsupportedAlgorithmCall =>
        /\ pc = "raised"
        /\ fs = before.fs
        /\ dirs = before.dirs

\* the same, for the trees in which the scan finds a file; and no tree is changed
C20_UnsupportedAlgorithmFatalIfScanned ==
    UnsupportedAlgorithmCall =>
        /\ files # <<>> => pc = "raised"
        /\ fs = before.fs
        /\ dirs = before.dirs

----------------------------------------------------------------------------
(* C21: classify_by_size partitions the sizes with inclusive upper bounds:  *)
(* Small exactly when size <= small_max, Medium exactly when small_max <    *)
(* size <= medium_max, Large otherwise; so with small_max < medium_max a    *)
(* size has one category and a size equal to a threshold has the lower one. *)
C21_SizePartition ==
    CalledFn("classify_by_size") =>
        LET size == Len(fs[call.file_path].content)
            small_max == call.thresholds.small_max
            medium_max == call.thresholds.medium_max
        IN  /\ ret.value \in {"small", "medium", "large"}
            /\ ret.value = "small" <=> size <= small_max
            /\ ret.value = "medium" <=> (small_max < size /\ size <= medium_max)
            /\ small_max < medium_max =>
                    /\ ret.value = "large" <=> medium_max < size
                    /\ size = small_max => ret.value = "small"
                    /\ size = medium_max => ret.value = "medium"

C21_Witness ==
    /\ CalledFn("classify_by_size")
    /\ call.thresholds.small_max < call.thresholds.medium_max
    /\ Len(fs[call.file_path].content) = call.thresholds.medium_max
    /\ ret.value = "medium"

----------------------------------------------------------------------------
(* C22: classify_file is case-insensitive and total: a file whose extension *)
(* is a lower, upper, title or mixed case spelling of an extension of the   *)
(* image, video or archive table gets the category of that table, and a     *)
(* file whose lowercased extension is in none of the tables, or that has no *)
(* extension, is Misc.                                                      *)
C22_CaseInsensitiveTotal ==
    CalledFn("classify_file") =>
        LET ext == call.file_path.name.ext
        IN  /\ \A e \in IMAGE_EXT : ext \in Spellings(e) => ret.value = "img"
            /\ \A e \in VIDEO_EXT : ext \in Spellings(e) => ret.value = "vid"
            /\ \A e \in ARCHIVE_EXT : ext \in Spellings(e) => ret.value = "arc"
            /\ (\A e \in IMAGE_EXT \cup VIDEO_EXT \cup ARCHIVE_EXT : ext \notin Spellings(e))
                    => ret.value = "msk"

C22_Witness ==
    /\ CalledFn("classify_file")
    /\ call.file_path.name.ext = MixedOf[".webm"]
    /\ ret.value = "vid"

----------------------------------------------------------------------------
(* C23: apply_filters returns an order-preserving sub-list of its input and *)
(* a count with excluded_count + len(filtered) = len(files), under every    *)
(* combination of include and exclude patterns and extensions.              *)
IsSubList(sub, list) ==
    \E at \in [1..Len(sub) -> 1..Len(list)] :
        /\ \A k \in 1..Len(sub) : list[at[k]] = sub[k]
        /\ \A j, k \in 1..Len(sub) : j < k => at[j] < at[k]

C23_SubListAndCount ==
    CalledFn("apply_filters") =>
        /\ IsSubList(ret.value.filtered, call.files)
        /\ ret.value.excluded_count + Len(ret.value.filtered) = Len(call.files)

\* two different files are kept, one is dropped, and all four stages are set
C23_Witness ==
    /\ CalledFn("apply_filters")
    /\ call.config.include_patterns # <<>> /\ call.config.exclude_patterns # <<>>
    /\ call.config.include_extensions # {} /\ call.config.exclude_extensions # {}
    /\ Cardinality(Range(ret.value.filtered)) = 2
    /\ ret.value.excluded_count = 1

----------------------------------------------------------------------------
(* C24: each filter stage only narrows and an empty stage is a no-op: the   *)
(* result is exactly the input files that match at least one include        *)
(* pattern (if any is set), have an included extension (if any is set),     *)
(* match no exclude pattern and have no excluded extension, in the input's  *)
(* order; with all four stages empty the result is the input and the count  *)
(* is 0.                                                                    *)
MatchesSome(f, patterns) == \E k \in DOMAIN patterns : matches_pattern(f, patterns[k])

PassesFilters(f) ==
    /\ call.config.include_patterns # <<>> => MatchesSome(f, call.config.include_patterns)
    /\ call.config.include_extensions # {} => matches_extensions(f, call.config.include_extensions)
    /\ ~ MatchesSome(f, call.config.exclude_patterns)
    /\ ~ matches_extensions(f, call.config.exclude_extensions)

NoStageSet ==
    /\ call.config.include_patterns = <<>> /\ call.config.exclude_patterns = <<>>
    /\ call.config.include_extensions = {} /\ call.config.exclude_extensions = {}

C24_StagesNarrow ==
    CalledFn("apply_filters") =>
        /\ ret.value.filtered = SelectSeq(call.files, PassesFilters)
        /\ NoStageSet => (ret.value.filtered = call.files /\ ret.value.excluded_count = 0)

\* a file passes the exclude stages and is dropped by an include stage
C24_Witness ==
    /\ CalledFn("apply_filters")
    /\ call.config.include_extensions # {} /\ call.config.exclude_patterns # <<>>
    /\ \E k \in DOMAIN call.files :
            /\ ~ MatchesSome(call.files[k], call.config.exclude_patterns)
            /\ ~ matches_extensions(call.files[k], call.config.exclude_extensions)
            /\ call.files[k] \notin Range(ret.value.filtered)
    /\ ret.value.filtered # <<>>

----------------------------------------------------------------------------
(* C25: find_empty_directories(root, preserveNames) returns exactly the     *)
(* directories below root that have zero entries and whose own name is not  *)
(* in preserveNames, each once, never root itself, no directory before one  *)
(* that lies below it; and it changes nothing on disk.                      *)
ZeroEntries(fsys, ds, d) ==
    /\ ~ \E p \in DOMAIN fsys : p.dir = d
    /\ ~ \E e \in ds : e # d /\ IsPrefix(d, e)

C25_FindsExactlyEmpty ==
    CalledFn("find_empty_directories") =>
        LET listed == Range(ret.value)
        IN  /\ listed = {d \in dirs : /\ IsPrefix(call.root_path, d) /\ d # call.root_path
                                      /\ ZeroEntries(fs, dirs, d)
                                      /\ d[Len(d)] \notin call.preserve_dirs}
            /\ Len(ret.value) = Cardinality(listed)
            /\ call.root_path \notin listed
            /\ \A j, k \in DOMAIN ret.value : j < k => ~ IsPrefix(ret.value[j], ret.value[k])
            /\ fs = before.fs
            /\ dirs = before.dirs

\* an empty directory is listed while an empty one of a preserved name is not
C25_Witness ==
    /\ CalledFn("find_empty_directories")
    /\ ret.value # <<>>
    /\ \E d \in dirs :
            /\ IsPrefix(call.root_path, d) /\ d # call.root_path
            /\ ZeroEntries(fs, dirs, d)
            /\ d[Len(d)] \in call.preserve_dirs

----------------------------------------------------------------------------
(* C26: iterating find_empty_directories and remove_empty_directories until *)
(* nothing is found or nothing is removed terminates; at the fixed point    *)
(* every directory that transitively held a file still exists and every     *)
(* directory of a preserved name still exists, even empty; and, no removal  *)
(* having been refused, every directory that transitively held no file and  *)
(* no directory of a preserved name is gone.                                *)
BelowRoot == before.dirs \ Prefixes(root)

HeldFile(d) == \E p \in DOMAIN before.fs : IsPrefix(d, p.dir)

Preserved(d) == d[Len(d)] \in call.preserve_dirs

HeldPreserved(d) == \E e \in before.dirs : IsPrefix(d, e) /\ Preserved(e)

Kept == \A d \in BelowRoot : (HeldFile(d) \/ Preserved(d)) => d \in dirs

Gone == \A d \in BelowRoot : (~ HeldFile(d) /\ ~ HeldPreserved(d)) => d \notin dirs

C26_CleanupReachesFixedPoint ==
    (pc = "idle") ~> (pc = "cleaned" /\ fs = before.fs /\ Kept /\ (faults = 0 => Gone))

\* the chain x/y/z has been removed up to x, in three rounds
C26_Witness ==
    /\ pc = "cleaned"
    /\ faults = 0
    /\ runs = 3
    /\ {<<"w", "x">>, <<"w", "x", "y">>, <<"w", "x", "y", "z">>} \subseteq before.dirs \ dirs

----------------------------------------------------------------------------
(* C27: one find_empty_directories call followed by one                     *)
(* remove_empty_directories call, as main makes them, removes every         *)
(* directory that transitively held no file and no directory of a preserved *)
(* name: of root/x/y/z none of x, y, z is left behind.                      *)
C27_OnePassRemovesChains ==
    (pc \in {"removed", "cleaned"} /\ runs = 1 /\ faults = 0) => Gone

----------------------------------------------------------------------------
(* C28: remove_empty_directories never raises on a failed removal: a        *)
(* directory of the list that is not empty, already gone or not removable   *)
(* is skipped and left as it was, the directories after it are still        *)
(* attempted, and the count returned is the number of directories removed,  *)
(* at most the length of the list.                                          *)
C28_RemovalFailuresSkipped ==
    CalledFn("remove_empty_directories") =>
        /\ ret.value = Cardinality(before.dirs \ dirs)
        /\ ret.value <= Len(call.directories)
        /\ dirs \subseteq before.dirs
        /\ before.dirs \ dirs \subseteq Range(call.directories)
        /\ fs = before.fs
        /\ \A d \in Range(call.directories) :
                /\ d \notin before.dirs => d \notin dirs
                /\ (d \in before.dirs /\ (d \in call.unremovable \/ HeldFile(d))) => d \in dirs
                /\ (d \in before.dirs /\ d \notin call.unremovable
                        /\ ZeroEntries(before.fs, before.dirs, d)) => d \notin dirs

\* a removal is refused, a directory that is gone comes next, and a directory
\* after both is removed
C28_Witness ==
    /\ CalledFn("remove_empty_directories")
    /\ \E j, k, l \in DOMAIN call.directories :
            /\ j < k /\ k < l
            /\ call.directories[j] \in call.unremovable
            /\ call.directories[k] = VanishedDir
            /\ call.directories[l] \in before.dirs \ dirs
    /\ ret.value = 1

----------------------------------------------------------------------------
(* C29: the statistics accumulator keeps per-category byte totals and the   *)
(* largest file per category: after any sequence of increment(category,     *)
(* size, filename, conflict) calls, each category's byte total is the sum   *)
(* of the sizes counted under it and its largest-file entry carries the     *)
(* greatest of them.                                                        *)
SizeField(c) == c \o "_size"

LargestField(c) == "largest_" \o c

\* the sizes the calls made so far passed under category c
SizesCounted(c) == {k \in DOMAIN files : Len(files[k]) = 4 /\ files[k][1] = c}

C29_ByteTotalsAndLargest ==
    (call.fn = "increment" /\ Len(call.arguments) = 4) =>
        /\ ret.raised = "none"
        /\ \A c \in Categories :
            /\ SizeField(c) \in DOMAIN stats
            /\ stats[SizeField(c)] = SumOver([k \in SizesCounted(c) |-> files[k][2]], SizesCounted(c))
            /\ LargestField(c) \in DOMAIN stats
            /\ \A k \in SizesCounted(c) : files[k][2] <= stats[LargestField(c)][2]

----------------------------------------------------------------------------
(* C30: for any custom date format, one with a path separator such as       *)
(* %Y/%m included, archive mode names the folder directly below root with   *)
(* the file's formatted date: the first path component of the destination   *)
(* relative to root is the formatted date string.                           *)
ArchiveMoved == pc \in {"loop", "done"} /\ call.fn = "sort_files_archive_mode" /\ last.called

FirstComponentIsDate ==
    last.ret.dir[Len(root) + 1] =
        strftime(get_file_date(before.fs, last.src, call.use_creation), call.date_format)

C30_FirstComponentIsDate == ArchiveMoved => FirstComponentIsDate

\* the same, for the date formats with no path separator
C30_FirstComponentIsDateNoSeparator ==
    (ArchiveMoved /\ call.date_format # "%Y/%m") => FirstComponentIsDate

----------------------------------------------------------------------------
(* C31: at every step of the processing loop of a real run, also one the    *)
(* run is interrupted at, each scanned file is at exactly one place with    *)
(* its content: a file the loop has not reached is at its source, a file    *)
(* it has processed is at its recorded destination and no longer at its     *)
(* source (or, in the modes that catch a failure, at its source with an     *)
(* entry in errors), and the counters count exactly the files moved (in     *)
(* the duplicate-aware mode, those of them that are no duplicates).         *)
Places(k) == {p \in DOMAIN fs : fs[p].ino = before.fs[files[k]].ino}

MovedFiles == {k \in DOMAIN files : Places(k) # {files[k]}}

----------------------------------------------------------------------------
(* C32: the numeric-suffix probe is not safe under concurrent movers.  Two  *)
(* calls of move_file_with_conflict_resolution toward one destination path  *)
(* that follow each other in a single thread each move to a name that is    *)
(* still free when the move executes, and both files are kept; when the     *)
(* calls run side by side, with the existence check and the move as         *)
(* separate steps, both can settle on the same name, and then the file      *)
(* moved first is lost (the witness is that interleaving).                  *)
BothReturned == movers # <<>> /\ \A m \in {1, 2} : movers[m].at = "returned"

\* the file mover m was given is on disk
KeptByMover(m) == \E p \in DOMAIN fs : fs[p].ino = before.fs[movers[m].src].ino

C32_ProbeUnsafeOnlyIfConcurrent ==
    movers # <<>> =>
        /\ \A m \in {1, 2} :
                (movers[m].at = "returned" /\ ~ call.concurrent) => movers[m].free
        /\ BothReturned =>
            /\ (\A m \in {1, 2} : movers[m].free) => (KeptByMover(1) /\ KeptByMover(2))
            /\ movers[1].chosen = movers[2].chosen =>
                    /\ call.concurrent
                    /\ ~ (KeptByMover(1) /\ KeptByMover(2))
                    /\ Cardinality(DOMAIN fs) = Cardinality(DOMAIN before.fs) - 1

\* both calls found dest taken and probed to the same free name
C32_Witness ==
    /\ BothReturned
    /\ call.concurrent
    /\ movers[1].chosen = movers[2].chosen
    /\ movers[1].chosen # call.dest
    /\ ~ (KeptByMover(1) /\ KeptByMover(2))

----------------------------------------------------------------------------
(* C33: each operation record of a run, dry or real, carries the byte size  *)
(* of the processed file: for every record, size equals the length of the   *)
(* content of the file the record is about.  (Violated by the code: the     *)
(* size is read from the source path after the move, sorter.py:157 and      *)
(* 280, so a real run records 0.)                                           *)
C33_RecordedSizeIsContentLength ==
    (pc \in {"loop", "done", "aborted"} /\ Recording) =>
        \A j \in DOMAIN stats.operations :
            stats.operations[j].size =
                get_file_size(before.fs, stats.operations[j].source)

\* what does hold: a dry run records the sizes, a real run records 0
C33_SizeReadAfterTheMove ==
    (pc \in {"loop", "done", "aborted"} /\ Recording) =>
        \A j \in DOMAIN stats.operations :
            stats.operations[j].size =
                IF dry_run THEN get_file_size(before.fs, stats.operations[j].source) ELSE 0

----------------------------------------------------------------------------
(* C34: a destination-name collision is surfaced as a conflict-resolved     *)
(* flag: the record produced for a file carries a flag that is true         *)
(* exactly when the destination the mover resolved differs from the         *)
(* destination it was asked for.  (Violated by the code: the records of     *)
(* sorter.py:42-50 have no such field.)                                     *)
RecordOfLastMove ==
    /\ pc \in {"loop", "done"}
    /\ Recording
    /\ last.called
    /\ stats.operations # <<>>
    /\ stats.operations[Len(stats.operations)].source = last.src

C34_ConflictFlagged ==
    RecordOfLastMove =>
        LET operation == stats.operations[Len(stats.operations)]
        IN  /\ "conflict_resolved" \in DOMAIN operation
            /\ operation["conflict_resolved"] = (last.ret # last.dest)

\* what does hold: the record carries the resolved destination, and a
\* collision adds no entry to errors
C34_CollisionIsNoError ==
    (RecordOfLastMove /\ last.ret # last.dest) =>
        /\ stats.operations[Len(stats.operations)].destination = last.ret
        /\ \A e \in DOMAIN stats.errors : stats.errors[e].file # last.src \/ faults > 0

----------------------------------------------------------------------------
(* C35: in every step of a loop, in every mode.  Real run: when the mover   *)
(* is called the folder it moves into exists, with every folder above it;   *)
(* creating a folder removes none and leaves the entries of the folder      *)
(* moved into as they were (all but the file moved, should it come from     *)
(* there); every folder the step creates is the folder, or lies above the   *)
(* folder, that a scanned file is routed to.  Dry run: the step creates no  *)
(* folder.                                                                  *)
C35_Step ==
    pc = "loop" =>
        /\ dirs \subseteq dirs'
        /\ dry_run => dirs' = dirs
        /\ (~ dry_run /\ pc' # "done" /\ last'.called) =>
            /\ Prefixes(last'.dest.dir) \subseteq dirs'
            /\ last'.ret.dir = last'.dest.dir
            /\ \A p \in EntriesOf(fs, last'.dest.dir) \ {last'.src} :
                    p \in DOMAIN fs' /\ fs'[p] = fs[p]
        /\ \A d \in dirs' \ dirs :
                \E f \in Scanned : d \in Prefixes(ExpectedFolder(f))

C35_FoldersLazyAndIdempotent == [][C35_Step]_vars

\* a real run moved a file into a folder that was there with entries, and
\* made another folder
C35_Witness ==
    /\ RealRun
    /\ pc = "done"
    /\ last.called
    /\ last.dest.dir \in before.dirs
    /\ EntriesOf(before.fs, last.dest.dir) # {}
    /\ EntriesOf(before.fs, last.dest.dir) \subseteq DOMAIN fs
    /\ dirs # before.dirs

----------------------------------------------------------------------------
(* C36: in the size, date, archive and duplicate-aware modes every scanned  *)
(* file yields exactly one outcome whichever step of its body raises, the   *)
(* progress callback included: a record in operations or an entry in        *)
(* errors, never both, so that at the end of a run len(operations) +        *)
(* len(errors) is the number of scanned files.  (Violated by the code: the  *)
(* callbacks run inside the try, after the record and the counters.)        *)
GuardedRunDone ==
    /\ pc = "done"
    /\ call.fn \in {"sort_files_with_size", "sort_files_with_date",
                    "sort_files_archive_mode", "sort_files_with_duplicates"}

C36_OneOutcomePerFile ==
    GuardedRunDone =>
        /\ Len(stats.operations) + Len(stats.errors) = Len(files)
        /\ \A j \in DOMAIN stats.operations, e \in DOMAIN stats.errors :
                stats.operations[j].source # stats.errors[e].file

\* what does hold: one outcome for every file whose callback did not raise
C36_OneOutcomeUnlessCallbackRaises ==
    (GuardedRunDone /\ \A e \in DOMAIN stats.errors : stats.errors[e].at # "callback") =>
        /\ Len(stats.operations) + Len(stats.errors) = Len(files)
        /\ \A j \in DOMAIN stats.operations, e \in DOMAIN stats.errors :
                stats.operations[j].source # stats.errors[e].file

----------------------------------------------------------------------------
(* C37: the accounting of the duplicate-aware mode.  After a run with no    *)
(* per-file error, dry or real: duplicates_found is the sum, over the       *)
(* groups of two or more hashed files of one content, of the members less   *)
(* one; total_files is the number of scanned files less duplicates_found;   *)
(* there is one record per scanned file; and a scanned file that could not  *)
(* be hashed is not flagged, has a record under its type category, is       *)
(* counted, and in a real run is in its type folder.                        *)
Hashed == Scanned \ call.unreadable

HashGroup(f) == {g \in Hashed : before.fs[g].content = before.fs[f].content}

\* one representative per group of two or more: its first member in scan order
GroupHeads ==
    {f \in Hashed : /\ Cardinality(HashGroup(f)) > 1
                    /\ \A k, l \in DOMAIN files :
                            (files[k] = f /\ files[l] \in HashGroup(f)) => k <= l}

C37_DuplicateAccounting ==
    (call.fn = "sort_files_with_duplicates" /\ CleanDone) =>
        /\ stats.duplicates_found =
                SumOver([f \in GroupHeads |-> Cardinality(HashGroup(f)) - 1], GroupHeads)
        /\ stats.total_files = Len(files) - stats.duplicates_found
        /\ Len(stats.operations) = Len(files)
        /\ \A f \in Scanned \cap call.unreadable :
            /\ f \notin duplicate_files
            /\ \E j \in DOMAIN stats.operations :
                    /\ stats.operations[j].source = f
                    /\ stats.operations[j].category = <<classify_file(f)>>
                    /\ stats.operations[j].destination.dir = root \o <<classify_file(f)>>
                    /\ ~ dry_run => SameFile(f, stats.operations[j].destination)

\* a real run over three files of one content, one of which could not be read
C37_Witness ==
    /\ call.fn = "sort_files_with_duplicates"
    /\ CleanDone
    /\ ~ dry_run
    /\ Len(files) = 3
    /\ stats.duplicates_found = 1
    /\ \E f \in Scanned \cap call.unreadable, g \in Hashed :
            before.fs[f].content = before.fs[g].content

----------------------------------------------------------------------------
(* C38: every run terminates.  In every step of a loop the list of files    *)
(* stays the list of the scan, in which no file is twice, and the loop      *)
(* moves on to the next file or is left by an exception; when the mover     *)
(* returns a suffixed name it is the name with suffix _n where the names    *)
(* with the suffixes below n are entries of the destination directory and   *)
(* n is at most the number of its entries plus one (the probing loop made   *)
(* n probes); and a call that is in its loop comes to its return or to the  *)
(* exception that leaves it.                                                *)
Suffixed(filename, n) == Name(filename.stem \o "_" \o ToString(n), filename.ext)

\* the mover returned dest's name with suffix n after probing 1..n
ProbedTo(fsys, dest, chosen, n) ==
    /\ chosen = FilePath(dest.dir, Suffixed(dest.name, n))
    /\ \A m \in 1..(n - 1) : FilePath(dest.dir, Suffixed(dest.name, m)) \in DOMAIN fsys
    /\ chosen \notin DOMAIN fsys

C38_Step ==
    pc = "loop" =>
        /\ files' = files
        /\ \A k, l \in DOMAIN files : files[k] = files[l] => k = l
        /\ pc' = "loop" => i' = i + 1
        /\ pc' = "aborted" => i' = i
        /\ pc' = "done" => (i' = i /\ i = Len(files) + 1)
        /\ (pc' = "loop" /\ last'.called) => last'.src = files[i]
        /\ (pc' = "loop" /\ last'.called /\ last'.ret # last'.dest) =>
                \E n \in 1..(Cardinality(EntriesOf(fs, last'.dest.dir)) + 1) :
                    ProbedTo(fs, last'.dest, last'.ret, n)

C38_EveryRunTerminates ==
    /\ [][C38_Step]_vars
    /\ (pc = "loop") ~> (pc \in {"done", "aborted"})

\* a run returned whose last move took two probes
C38_Witness ==
    /\ RealRun
    /\ pc = "done"
    /\ i = Len(files) + 1
    /\ Len(files) >= 1
    /\ last.called
    /\ last.ret.name = Suffixed(last.dest.name, 2)

----------------------------------------------------------------------------
(* C39: a plain-mode run leaves alone every file with a directory named     *)
(* img, vid, arc or msk above it, at any depth: at every point of the run   *)
(* the file is at its path with its inode, content and times, it is not in  *)
(* the list of scanned files, and no operation record is about it; a file   *)
(* such as root/a/img/x.txt is thus never sorted.                           *)
UnderCategoryFolder(p) ==
    \E d \in Prefixes(p.dir) : d[Len(d)] \in {"img", "vid", "arc", "msk"}

C39_FilesUnderCategoryFoldersUntouched ==
    (call.fn = "sort_files" /\ pc \in {"loop", "done", "aborted"}) =>
        \A p \in DOMAIN before.fs :
            UnderCategoryFolder(p) =>
                /\ p \in DOMAIN fs
                /\ fs[p] = before.fs[p]
                /\ p \notin Scanned
                /\ \A j \in DOMAIN stats.operations : stats.operations[j].source # p
                /\ stats.total_files <= Cardinality(Scanned \ {p})

\* a real run that moved a file and left root/a/img/x.txt where it was
C39_Witness ==
    /\ call.fn = "sort_files"
    /\ RealRun
    /\ pc = "done"
    /\ stats.total_files >= 1
    /\ \E p \in DOMAIN fs :
            /\ p.dir = root \o <<"a", "img">>
            /\ root[Len(root)] # "img"
            /\ p \in DOMAIN before.fs

====
